---- MODULE Spec2Model ----
(***************************************************************************)
(* A model of the Gama launcher's setup pipeline: the settings reconciler  *)
(* (settings_manager.py), the launch classpath builder and the mod/shader  *)
(* selector (launcher.py), and the runtime installer with its asset        *)
(* fetcher (setup_minecraft.py).                                           *)
(*                                                                         *)
(* Files are modelled by their content.  A text file is a sequence of      *)
(* lines, a line a sequence of tokens; ":" and " " are tokens of their own *)
(* so that line parsing (strip, split at the first colon) is computed.     *)
(* A path is the sequence of its components below the game directory.      *)
(***************************************************************************)
EXTENDS Integers, Sequences, FiniteSets, TLC

VARIABLES
    \* ---- settings_manager.py: files below minecraft_dir ----
    options,        \* options.txt: NoFile or a sequence of lines
    tracker,        \* launcher_settings.json: NoFile or the tracker record
    iris,           \* config/iris.properties: NoFile or a sequence of lines
    dh,             \* config/DistantHorizons.toml: NoFile or its generated fields
    call,           \* the last apply_settings call: arguments, result, files written
    \* ---- launcher.py, launch_sequence: what the classpath is built from ----
    vanilla_version_json,   \* versions/<mc>/<mc>.json: NoFile or the base manifest
    version_json_path,      \* versions/<fabric>/<fabric>.json: NoFile or the loader profile
    jars,           \* the jar files that exist below minecraft_dir (a set of paths)
    launch,         \* the last run of the launch configuration: classpath, error, spawn
    \* ---- launcher.py: the selection and what prepare_mods works on ----
    mod_lists,      \* self.mod_lists, as load_mod_lists left it
    tier_var,       \* the selected tier
    shaders_var,    \* the shader checkbox
    live_mods,      \* the files in minecraft_dir/mods
    live_shaders,   \* the files in minecraft_dir/shaderpacks
    shaderpacks_dir,    \* the files in base_dir/shaderpacks
    prepared,       \* the last run of prepare_mods: selection and outcome
    \* ---- setup_minecraft.py, download_assets ----
    asset_index,    \* index_data["objects"]: the entries in order, each with its hash
    objects,        \* assets/objects: the path of each file that exists -> its content
    assets_run,     \* where download_assets is: idle, start, objects, done, no index
    asset_i,        \* the entry the loop is at
    asset_gets,     \* per hash, the outcomes of this run's GET requests for it
    objects_before, \* the paths the object store held when the run started
    fetcher,        \* which of the two files' loops runs
    network_used,   \* whether the current run has made a network request
    \* ---- launcher.py, setup_minecraft ----
    setup_pc,       \* where the current run of setup_minecraft is ("idle": none runs)
    lib_i,          \* the library the installer's loop is at
    corrupt,        \* the jars whose content is not the artifact (cut short, error page)
    asset_index_id, \* self.asset_index_id
    last_run,       \* the last finished run of setup_minecraft: its outcome
    run_after_success,  \* whether the run before the current one installed the runtime
    requested,      \* what the current run of setup_minecraft has sent a request for
    \* ---- launcher.py, launch_game, launch_sequence and monitor_game_process ----
    imports,        \* the names launcher.py's namespace binds
    config,         \* self.config: the selection launch_game saved
    launch_btn,     \* the state of the launch button: normal or disabled
    launch_pc,      \* where the worker thread of the current launch is ("idle": none)
    attempt,        \* the current or last launch: its steps and what each one used
    \* ---- setup_minecraft.py, download_with_retry ----
    retry,          \* the current or last call: its arguments, position and effects
    \* ---- settings_manager.py run by two launchers on one game directory ----
    inst,           \* per launcher instance, where its call of apply_settings is
    \* ---- bookkeeping ----
    op              \* the operation that ran last

settingsVars == <<options, tracker, iris, dh, call>>
classpathVars == <<vanilla_version_json, version_json_path, jars, launch>>

assetsVars == <<asset_index, objects, assets_run, asset_i, asset_gets,
                objects_before, fetcher, network_used>>
installVars == <<setup_pc, lib_i, corrupt, asset_index_id, last_run, run_after_success,
                 requested>>
modsVars == <<mod_lists, tier_var, shaders_var, live_mods, live_shaders,
              shaderpacks_dir, prepared>>
launchVars == <<imports, config, launch_btn, launch_pc, attempt>>
retryVars == <<retry>>
instVars == <<inst>>
\* what the components above leave alone
restVars == <<launchVars, retryVars, instVars>>
\* what the launch leaves alone
sideVars == <<retryVars, instVars>>

vars == <<options, tracker, iris, dh, call,
          vanilla_version_json, version_json_path, jars, launch,
          mod_lists, tier_var, shaders_var, live_mods, live_shaders,
          shaderpacks_dir, prepared,
          asset_index, objects, assets_run, asset_i, asset_gets, objects_before,
          fetcher, network_used,
          setup_pc, lib_i, corrupt, asset_index_id, last_run, run_after_success,
          requested, imports, config, launch_btn, launch_pc, attempt, retry, inst, op>>

\* A file is the empty sequence when it does not exist and <<content>> when it
\* does; the record of the last call is kept the same way.
NoFile == <<>>
File(content) == <<content>>
Content(file) == file[1]
None == "<None>"
NoCall == <<>>

(***************************************************************************)
(* settings_manager.py                                                     *)
(***************************************************************************)

\* self.tier_settings: the settings bundle of each tier.  fov is a whole float.
tier_settings ==
    ( "Very Low" :>
        [renderDistance |-> 8, simulationDistance |-> 6, graphicsMode |-> 0,
         enableVsync |-> FALSE, maxFps |-> 0, fancyGraphics |-> FALSE,
         particles |-> 2, fov |-> 70, entityShadows |-> FALSE, bobView |-> FALSE,
         guiScale |-> 0, mipmapLevels |-> 0, biomeBlendRadius |-> 0,
         ao |-> FALSE, clouds |-> FALSE, distant_horizons |-> FALSE] ) @@
    ( "Low" :>
        [renderDistance |-> 10, simulationDistance |-> 8, graphicsMode |-> 0,
         enableVsync |-> FALSE, maxFps |-> 0, fancyGraphics |-> FALSE,
         particles |-> 1, fov |-> 70, entityShadows |-> FALSE, bobView |-> TRUE,
         guiScale |-> 0, mipmapLevels |-> 1, biomeBlendRadius |-> 1,
         ao |-> FALSE, clouds |-> TRUE, distant_horizons |-> FALSE] ) @@
    ( "Medium" :>
        [renderDistance |-> 10, simulationDistance |-> 8, graphicsMode |-> 1,
         enableVsync |-> FALSE, maxFps |-> 0, fancyGraphics |-> TRUE,
         particles |-> 0, fov |-> 80, entityShadows |-> TRUE, bobView |-> TRUE,
         guiScale |-> 0, mipmapLevels |-> 2, biomeBlendRadius |-> 2,
         ao |-> TRUE, clouds |-> TRUE, distant_horizons |-> FALSE] ) @@
    ( "High" :>
        [renderDistance |-> 12, simulationDistance |-> 8, graphicsMode |-> 1,
         enableVsync |-> FALSE, maxFps |-> 0, fancyGraphics |-> TRUE,
         particles |-> 0, fov |-> 85, entityShadows |-> TRUE, bobView |-> TRUE,
         guiScale |-> 0, mipmapLevels |-> 3, biomeBlendRadius |-> 3,
         ao |-> TRUE, clouds |-> TRUE, distant_horizons |-> FALSE] ) @@
    ( "Very High" :>
        [renderDistance |-> 12, simulationDistance |-> 10, graphicsMode |-> 1,
         enableVsync |-> FALSE, maxFps |-> 0, fancyGraphics |-> TRUE,
         particles |-> 0, fov |-> 90, entityShadows |-> TRUE, bobView |-> TRUE,
         guiScale |-> 0, mipmapLevels |-> 4, biomeBlendRadius |-> 5,
         ao |-> TRUE, clouds |-> TRUE, distant_horizons |-> TRUE,
         dh_render_distance |-> 256, dh_quality |-> "HIGH"] ) @@
    ( "Ultra" :>
        [renderDistance |-> 14, simulationDistance |-> 10, graphicsMode |-> 2,
         enableVsync |-> FALSE, maxFps |-> 0, fancyGraphics |-> TRUE,
         particles |-> 0, fov |-> 90, entityShadows |-> TRUE, bobView |-> TRUE,
         guiScale |-> 0, mipmapLevels |-> 4, biomeBlendRadius |-> 7,
         ao |-> TRUE, clouds |-> TRUE, distant_horizons |-> TRUE,
         dh_render_distance |-> 512, dh_quality |-> "EXTREME"] )

\* dict.get(key, default)
Get(d, key, default) == IF key \in DOMAIN d THEN d[key] ELSE default

\* str(int), str(whole float) and the 'true' if b else 'false' conversion
IntStr(n) == ToString(n)
FloatStr(n) == ToString(n) \o ".0"
BoolStr(b) == IF b THEN "true" ELSE "false"

\* _load_settings_tracker: the file's record, or the default when it is missing
DefaultTracker == [last_tier_used |-> None, last_shaders_used |-> FALSE]
LoadSettingsTracker(file) == IF file # NoFile THEN Content(file) ELSE DefaultTracker

\* tier_changed / shader_changed of apply_settings
TierChanged(last_tier, tier) == last_tier # tier
ShaderChanged(last_shaders, shaders_enabled) == last_shaders # shaders_enabled

\* "if not force and not tier_changed and not shader_changed"
UseSavedIgnoringShaders(force, tier_changed, shader_changed) ==
    ~force /\ ~tier_changed
UseSavedSettings(force, tier_changed, shader_changed) ==
    ~force /\ ~tier_changed /\ ~shader_changed

\* tracker["last_tier_used"] = tier; tracker["last_shaders_used"] = shaders_enabled
UpdatedTrackerTierOnly(loaded, tier, shaders_enabled) ==
    [loaded EXCEPT !.last_tier_used = tier]
UpdatedTracker(loaded, tier, shaders_enabled) ==
    [loaded EXCEPT !.last_tier_used = tier, !.last_shaders_used = shaders_enabled]

\* _save_settings_tracker: the file it leaves
SaveNoTracker(record) == NoFile
SaveSettingsTracker(record) == File(record)

\* ---- options.txt ----

\* line.strip(): whitespace off both ends
RECURSIVE LStrip(_)
LStrip(line) ==
    IF line # <<>> /\ Head(line) = " " THEN LStrip(Tail(line)) ELSE line
RECURSIVE RStrip(_)
RStrip(line) ==
    IF line # <<>> /\ line[Len(line)] = " "
    THEN RStrip(SubSeq(line, 1, Len(line) - 1)) ELSE line
Strip(line) == RStrip(LStrip(line))

\* ':' in line
HasColon(line) == \E i \in 1..Len(line) : line[i] = ":"
FirstColon(line) ==
    CHOOSE i \in 1..Len(line) :
        line[i] = ":" /\ \A j \in 1..(i - 1) : line[j] # ":"

\* key, value = line.split(':', 1)
SplitLine(line) ==
    LET colon == FirstColon(line)
    IN  [key |-> SubSeq(line, 1, colon - 1),
         value |-> SubSeq(line, colon + 1, Len(line))]

\* existing_options[key] = value
Put(d, key, value) == (key :> value) @@ d

EmptyDict == [k \in {} |-> <<>>]

\* the read loop of _write_options_txt from line i on: a stripped line that
\* holds a colon sets existing_options[key] = value, any other line is skipped
RECURSIVE ReadLines(_, _, _)
ReadLines(lines, i, existing_options) ==
    IF i > Len(lines) THEN existing_options
    ELSE LET line == Strip(lines[i])
             split == SplitLine(line)
         IN  IF HasColon(line)
             THEN ReadLines(lines, i + 1, Put(existing_options, split.key, split.value))
             ELSE ReadLines(lines, i + 1, existing_options)

\* existing_options after the read: empty when options.txt does not exist
ReadOptions(file) ==
    IF file = NoFile THEN EmptyDict ELSE ReadLines(Content(file), 1, EmptyDict)

\* the fifteen keys _write_options_txt sets, with the values it gives them
GovernedValues(settings) ==
    ( <<"renderDistance">> :> <<IntStr(settings["renderDistance"])>> ) @@
    ( <<"simulationDistance">> :> <<IntStr(settings["simulationDistance"])>> ) @@
    ( <<"graphicsMode">> :> <<IntStr(settings["graphicsMode"])>> ) @@
    ( <<"enableVsync">> :> <<BoolStr(settings["enableVsync"])>> ) @@
    ( <<"maxFps">> :> <<IntStr(settings["maxFps"])>> ) @@
    ( <<"fancyGraphics">> :> <<BoolStr(settings["fancyGraphics"])>> ) @@
    ( <<"particles">> :> <<IntStr(settings["particles"])>> ) @@
    ( <<"fov">> :> <<FloatStr(settings["fov"])>> ) @@
    ( <<"entityShadows">> :> <<BoolStr(settings["entityShadows"])>> ) @@
    ( <<"bobView">> :> <<BoolStr(settings["bobView"])>> ) @@
    ( <<"guiScale">> :> <<IntStr(settings["guiScale"])>> ) @@
    ( <<"mipmapLevels">> :> <<IntStr(settings["mipmapLevels"])>> ) @@
    ( <<"biomeBlendRadius">> :> <<IntStr(settings["biomeBlendRadius"])>> ) @@
    ( <<"ao">> :> <<BoolStr(Get(settings, "ao", TRUE))>> ) @@
    ( <<"renderClouds">> :> <<BoolStr(Get(settings, "clouds", TRUE))>> )

\* existing_options after the fifteen assignments
UpdateDropExisting(existing, settings) == GovernedValues(settings)
UpdateWithTierSettings(existing, settings) == GovernedValues(settings) @@ existing

\* Every key a file of the model can hold, in the order Python's sorted()
\* gives them (by code point).
KeyOrder ==
    << <<"ao">>, <<"biomeBlendRadius">>, <<"bobView">>, <<"enableVsync">>,
       <<"entityShadows">>, <<"fancyGraphics">>, <<"fov">>, <<"graphicsMode">>,
       <<"guiScale">>, <<"lang">>, <<"maxFps">>, <<"mipmapLevels">>,
       <<"particles">>, <<"renderClouds">>, <<"renderDistance">>,
       <<"resourcePacks">>, <<"simulationDistance">> >>

\* for key, value in sorted(existing_options.items()): f.write(f"{key}:{value}\n")
FormatOptions(d) ==
    LET InDict(k) == k \in DOMAIN d
        keys == SelectSeq(KeyOrder, InDict)
    IN  [i \in 1..Len(keys) |-> keys[i] \o <<":">> \o d[keys[i]]]

\* _write_options_txt: the file it leaves
WriteOptionsTxt(file, settings) ==
    File(FormatOptions(UpdateWithTierSettings(ReadOptions(file), settings)))

\* ---- config/iris.properties ----

\* _enable_shaders / _disable_shaders: the file each writes
EnableShaders(shaderpack) ==
    << <<"enableShaders", "=", "true">>,
       <<"shaderPack", "=", shaderpack>>,
       <<"maxShadowRenderDistance", "=", "32">> >>
DisableShaders ==
    << <<"enableShaders", "=", "false">>,
       <<"shaderPack", "=">> >>

\* the shader branch of apply_settings: "if shaders_enabled and shaderpack"
MarkerByFlagOnly(shaders_enabled, shaderpack) ==
    IF shaders_enabled THEN File(EnableShaders(shaderpack)) ELSE File(DisableShaders)
ShaderMarker(shaders_enabled, shaderpack) ==
    IF shaders_enabled /\ shaderpack # None
    THEN File(EnableShaders(shaderpack)) ELSE File(DisableShaders)

\* ---- config/DistantHorizons.toml ----

\* quality_settings of _configure_distant_horizons
quality_settings(dh_distance) ==
    ( "MEDIUM" :> [horizontalResolution |-> "1.0", verticalQuality |-> "MEDIUM",
                   lodChunkRenderDistance |-> dh_distance, drawMode |-> "FADING",
                   enableCaveMode |-> FALSE] ) @@
    ( "HIGH" :> [horizontalResolution |-> "1.25", verticalQuality |-> "HIGH",
                 lodChunkRenderDistance |-> dh_distance, drawMode |-> "FADING",
                 enableCaveMode |-> FALSE] ) @@
    ( "EXTREME" :> [horizontalResolution |-> "1.5", verticalQuality |-> "EXTREME",
                    lodChunkRenderDistance |-> dh_distance, drawMode |-> "FADING",
                    enableCaveMode |-> FALSE] )

\* _configure_distant_horizons: the values interpolated into the generated file
ConfigureDistantHorizons(settings) ==
    LET dh_distance == Get(settings, "dh_render_distance", 256)
        dh_quality == Get(settings, "dh_quality", "MEDIUM")
        quality == Get(quality_settings(dh_distance), dh_quality,
                       quality_settings(dh_distance)["MEDIUM"])
    IN  [lodChunkRenderDistance |-> IntStr(quality.lodChunkRenderDistance),
         horizontalResolution |-> quality.horizontalResolution,
         verticalQuality |-> quality.verticalQuality,
         drawMode |-> quality.drawMode,
         enableCaveMode |-> BoolStr(quality.enableCaveMode)]

\* ---- apply_settings ----

\* The arguments the model calls apply_settings with: a tier without and two
\* with Distant Horizons and a tier tier_settings does not know; the shader flag
\* with the package launch_sequence passes (None when shaders are off, the
\* preset's package or None when they are on).
Tiers == DOMAIN tier_settings
CalledTiers == {"Low", "Very High", "Ultra", "Custom"}
ShaderArgs ==
    { <<FALSE, None>>, <<TRUE, "ComplementaryReimagined_r5.6.1.zip">>, <<TRUE, None>> }

\* apply_settings(tier, shaders_enabled, shaderpack, force)
apply_settings(tier, shaders_enabled, shaderpack, force) ==
    LET loaded == LoadSettingsTracker(tracker)
        last_tier == Get(loaded, "last_tier_used", None)
        last_shaders == Get(loaded, "last_shaders_used", FALSE)
        tier_changed == TierChanged(last_tier, tier)
        shader_changed == ShaderChanged(last_shaders, shaders_enabled)
        same == /\ call # NoCall
                /\ call[1].tier = tier /\ call[1].shaders_enabled = shaders_enabled
                /\ ~call[1].force /\ ~force
        done(ret, wrote) ==
            /\ call' = << [tier |-> tier, shaders_enabled |-> shaders_enabled,
                           shaderpack |-> shaderpack, force |-> force,
                           tier_changed |-> tier_changed,
                           shader_changed |-> shader_changed, repeated |-> same,
                           ret |-> ret, wrote |-> wrote,
                           options_kept |-> (options' = options)] >>
            /\ op' = "apply_settings"
    IN  IF tier \notin DOMAIN tier_settings
        THEN /\ UNCHANGED <<options, tracker, iris, dh>>
             /\ done(FALSE, {})
        ELSE LET settings == tier_settings[tier]
                 has_dh == Get(settings, "distant_horizons", FALSE)
             IN  IF UseSavedSettings(force, tier_changed, shader_changed)
                 THEN /\ iris' = ShaderMarker(shaders_enabled, shaderpack)
                      /\ dh' = IF has_dh THEN File(ConfigureDistantHorizons(settings)) ELSE dh
                      /\ UNCHANGED <<options, tracker>>
                      /\ done(FALSE, {"iris"} \cup (IF has_dh THEN {"dh"} ELSE {}))
                 ELSE /\ options' = WriteOptionsTxt(options, settings)
                      /\ iris' = ShaderMarker(shaders_enabled, shaderpack)
                      /\ dh' = IF has_dh THEN File(ConfigureDistantHorizons(settings)) ELSE dh
                      /\ tracker' = SaveSettingsTracker(
                                        UpdatedTracker(loaded, tier, shaders_enabled))
                      /\ done(TRUE, {"options", "iris", "tracker"}
                                        \cup (IF has_dh THEN {"dh"} ELSE {}))

ApplySettings ==
    /\ \E tier \in CalledTiers, shader \in ShaderArgs, force \in BOOLEAN :
            apply_settings(tier, shader[1], shader[2], force)
    /\ UNCHANGED classpathVars /\ UNCHANGED modsVars
    /\ UNCHANGED assetsVars /\ UNCHANGED installVars

\* The player changes a governed option in the game, which rewrites options.txt.
UserLine == <<"renderDistance", ":", "32">>
UserEditOptions ==
    /\ options # NoFile
    /\ \A i \in 1..Len(Content(options)) : Content(options)[i] # UserLine
    /\ options' =
         LET lines == Content(options)
             at == {i \in 1..Len(lines) :
                        HasColon(lines[i]) /\ SplitLine(lines[i]).key = <<"renderDistance">>}
         IN  IF at = {} THEN File(Append(lines, UserLine))
             ELSE File([i \in 1..Len(lines) |-> IF i \in at THEN UserLine ELSE lines[i]])
    /\ op' = "edit"
    /\ UNCHANGED <<tracker, iris, dh, call>>
    /\ UNCHANGED classpathVars /\ UNCHANGED modsVars
    /\ UNCHANGED assetsVars /\ UNCHANGED installVars

\* ---- apply_settings statement by statement, for launchers that share the
\* ---- game directory: each instance has its own MinecraftSettingsManager and
\* ---- its own local variables; the files are the shared ones, and nothing
\* ---- locks them, so the steps of two calls interleave in any order

Instances == {1, 2}
InstanceTiers == {"Low", "Ultra"}
NoInstanceCall ==
    [pc |-> "idle", tier |-> None, shaders_enabled |-> FALSE, shaderpack |-> None,
     loaded |-> DefaultTracker, ret |-> None, undisturbed |-> TRUE]

\* instance i takes a step that leaves its call as rec; a call another instance
\* has under way, or has returned from, is no longer undisturbed
InstanceStepUnmarked(i, rec) == inst' = [inst EXCEPT ![i] = rec]
InstanceStep(i, rec) ==
    inst' = [j \in Instances |->
                IF j = i THEN rec
                ELSE IF inst[j].pc = "idle" THEN inst[j]
                ELSE [inst[j] EXCEPT !.undisturbed = FALSE]]

\* "tracker = self._load_settings_tracker()" to the test of line 175, in a
\* call with force left at its default
LoadTrackerStep(i) ==
    /\ inst[i].pc \in {"idle", "returned"}
    /\ \E tier \in InstanceTiers, shaders_enabled \in BOOLEAN :
          LET loaded == LoadSettingsTracker(tracker)
              tier_changed == TierChanged(Get(loaded, "last_tier_used", None), tier)
              shader_changed ==
                  ShaderChanged(Get(loaded, "last_shaders_used", FALSE), shaders_enabled)
          IN  InstanceStep(i,
                  [pc |-> IF UseSavedSettings(FALSE, tier_changed, shader_changed)
                          THEN "use_saved" ELSE "write_options",
                   tier |-> tier, shaders_enabled |-> shaders_enabled,
                   shaderpack |-> IF shaders_enabled
                                  THEN "ComplementaryReimagined_r5.6.1.zip" ELSE None,
                   loaded |-> loaded, ret |-> None, undisturbed |-> TRUE])
    /\ op' = "load_tracker"
    /\ UNCHANGED settingsVars
    /\ UNCHANGED classpathVars /\ UNCHANGED modsVars /\ UNCHANGED assetsVars
    /\ UNCHANGED installVars /\ UNCHANGED launchVars /\ UNCHANGED retryVars

\* the shader marker and the Distant Horizons config, which both paths write
ShadersAndDH(i) ==
    /\ iris' = ShaderMarker(inst[i].shaders_enabled, inst[i].shaderpack)
    /\ dh' = IF Get(tier_settings[inst[i].tier], "distant_horizons", FALSE)
             THEN File(ConfigureDistantHorizons(tier_settings[inst[i].tier])) ELSE dh

\* the unchanged path, which returns False
UseSavedStep(i) ==
    /\ inst[i].pc = "use_saved"
    /\ ShadersAndDH(i)
    /\ InstanceStep(i, [inst[i] EXCEPT !.pc = "returned", !.ret = "False"])
    /\ op' = "use_saved"
    /\ UNCHANGED <<options, tracker, call>>
    /\ UNCHANGED classpathVars /\ UNCHANGED modsVars /\ UNCHANGED assetsVars
    /\ UNCHANGED installVars /\ UNCHANGED launchVars /\ UNCHANGED retryVars

\* "self._write_options_txt(settings)"
WriteOptionsStep(i) ==
    /\ inst[i].pc = "write_options"
    /\ options' = WriteOptionsTxt(options, tier_settings[inst[i].tier])
    /\ InstanceStep(i, [inst[i] EXCEPT !.pc = "shaders"])
    /\ op' = "write_options"
    /\ UNCHANGED <<tracker, iris, dh, call>>
    /\ UNCHANGED classpathVars /\ UNCHANGED modsVars /\ UNCHANGED assetsVars
    /\ UNCHANGED installVars /\ UNCHANGED launchVars /\ UNCHANGED retryVars

\* "Apply shaders" and "Apply Distant Horizons" of the changed path
ShadersStep(i) ==
    /\ inst[i].pc = "shaders"
    /\ ShadersAndDH(i)
    /\ InstanceStep(i, [inst[i] EXCEPT !.pc = "save_tracker"])
    /\ op' = "shaders"
    /\ UNCHANGED <<options, tracker, call>>
    /\ UNCHANGED classpathVars /\ UNCHANGED modsVars /\ UNCHANGED assetsVars
    /\ UNCHANGED installVars /\ UNCHANGED launchVars /\ UNCHANGED retryVars

\* the tracker the call loaded is updated and saved, and the call returns True
SaveTrackerStep(i) ==
    /\ inst[i].pc = "save_tracker"
    /\ tracker' = SaveSettingsTracker(
                      UpdatedTracker(inst[i].loaded, inst[i].tier,
                                     inst[i].shaders_enabled))
    /\ InstanceStep(i, [inst[i] EXCEPT !.pc = "returned", !.ret = "True"])
    /\ op' = "save_tracker"
    /\ UNCHANGED <<options, iris, dh, call>>
    /\ UNCHANGED classpathVars /\ UNCHANGED modsVars /\ UNCHANGED assetsVars
    /\ UNCHANGED installVars /\ UNCHANGED launchVars /\ UNCHANGED retryVars

\* options.txt as the launcher may find it: absent, empty, or left by an earlier
\* game session (a key the presets do not govern; the key twice, once padded;
\* a value holding a colon next to a line without one).
OptionFiles ==
    { NoFile,
      File(<<>>),
      File(<< <<"lang", ":", "en_us">> >>),
      File(<< <<"lang", ":", "en_us">>, <<" ", "lang", ":", "de_de", " ">> >>),
      File(<< <<"resourcePacks", ":", "vanilla", ":", "file">>, <<"version">> >>) }

(***************************************************************************)
(* launcher.py, launch_sequence: the launch configuration and classpath    *)
(***************************************************************************)

MCVERSION == "1.20.1"
FABRICVERSION == "0.17.2"

\* str.split(sep): the pieces of a token sequence between the separators
RECURSIVE SplitFrom(_, _, _, _)
SplitFrom(tokens, sep, i, piece) ==
    IF i > Len(tokens) THEN <<piece>>
    ELSE IF tokens[i] = sep
         THEN <<piece>> \o SplitFrom(tokens, sep, i + 1, <<>>)
         ELSE SplitFrom(tokens, sep, i + 1, Append(piece, tokens[i]))
Split(tokens, sep) == SplitFrom(tokens, sep, 1, <<>>)

\* the string a token sequence spells
RECURSIVE Join(_)
Join(tokens) == IF tokens = <<>> THEN "" ELSE Head(tokens) \o Join(Tail(tokens))

\* the components of a relative path written with the separator sep; the Path
\* operator / drops empty components
RECURSIVE Components(_)
Components(pieces) ==
    IF pieces = <<>> THEN <<>>
    ELSE IF Head(pieces) = <<>> THEN Components(Tail(pieces))
         ELSE <<Join(Head(pieces))>> \o Components(Tail(pieces))
PathOf(tokens, sep) == Components(Split(tokens, sep))

\* libraries_dir = self.minecraft_dir / "libraries"
libraries_dir == <<"libraries">>

\* libraries_dir / group_path / artifact_id / version / jar_name, with
\* group_path = group_id.replace(".", "/") and jar_name = f"{artifact_id}-{version}.jar"
jar_path(parts) ==
    LET group_id == parts[1]
        artifact_id == Join(parts[2])
        version == Join(parts[3])
        jar_name == artifact_id \o "-" \o version \o ".jar"
    IN  libraries_dir \o PathOf(group_id, ".") \o <<artifact_id, version, jar_name>>

\* mc_jar and the two manifests' places below minecraft_dir
mc_jar == <<"versions", MCVERSION, MCVERSION \o ".jar">>

\* Path.exists() of a jar
NeverExists(path) == FALSE
Exists(path) == path \in jars

\* The "Vanilla libraries" loop body: the path a base library resolves to, as a
\* sequence of zero or one paths.
VanillaLibPath(library) ==
    IF "downloads" \in DOMAIN library /\ "artifact" \in DOMAIN library.downloads
    THEN << libraries_dir \o PathOf(library.downloads.artifact.path, "/") >>
    ELSE IF "name" \in DOMAIN library
         THEN LET parts == Split(library.name, ":")
              IN  IF Len(parts) >= 3 THEN << jar_path(parts) >> ELSE <<>>
         ELSE <<>>

\* The "Fabric libraries" loop body
FabricLibPath(library) ==
    LET lib_name == Get(library, "name", <<>>)
        parts == Split(lib_name, ":")
    IN  IF lib_name = <<>> THEN <<>>
        ELSE IF Len(parts) # 3 THEN <<>>
        ELSE << jar_path(parts) >>

\* "if lib_path.exists(): classpath_parts.append(str(lib_path))"
AppendIfExists(classpath_parts, resolved) ==
    IF resolved # <<>> /\ Exists(resolved[1])
    THEN Append(classpath_parts, resolved[1]) ELSE classpath_parts

\* the two for loops, from library i on
RECURSIVE VanillaLoop(_, _, _)
VanillaLoop(libraries, i, classpath_parts) ==
    IF i > Len(libraries) THEN classpath_parts
    ELSE VanillaLoop(libraries, i + 1,
                     AppendIfExists(classpath_parts, VanillaLibPath(libraries[i])))
RECURSIVE FabricLoop(_, _, _)
FabricLoop(libraries, i, classpath_parts) ==
    IF i > Len(libraries) THEN classpath_parts
    ELSE FabricLoop(libraries, i + 1,
                    AppendIfExists(classpath_parts, FabricLibPath(libraries[i])))

\* classpath_parts before the client jar is looked at
LibrariesLoaderFirst(vanilla_file, fabric_profile) ==
    LET loader == FabricLoop(Get(fabric_profile, "libraries", <<>>), 1, <<>>)
    IN  IF vanilla_file # NoFile
        THEN VanillaLoop(Get(Content(vanilla_file), "libraries", <<>>), 1, loader)
        ELSE loader
LibraryParts(vanilla_file, fabric_profile) ==
    LET vanilla == IF vanilla_file # NoFile
                   THEN VanillaLoop(Get(Content(vanilla_file), "libraries", <<>>), 1, <<>>)
                   ELSE <<>>
    IN  FabricLoop(Get(fabric_profile, "libraries", <<>>), 1, vanilla)

\* "if mc_jar.exists(): classpath_parts.append(str(mc_jar)) else: raise"
ClientJarOptional(classpath_parts, exists) ==
    [error |-> None,
     classpath_parts |-> IF exists THEN Append(classpath_parts, mc_jar)
                         ELSE classpath_parts]
ClientJar(classpath_parts, exists) ==
    IF exists
    THEN [error |-> None, classpath_parts |-> Append(classpath_parts, mc_jar)]
    ELSE [error |-> "Minecraft JAR not found!", classpath_parts |-> classpath_parts]

\* From "Build launch configuration" to the joined classpath: the error raised, or
\* None and the classpath.
BuildClasspath ==
    IF version_json_path = NoFile
    THEN [error |-> "Fabric profile not found!", classpath_parts |-> <<>>]
    ELSE LET fabric_profile == Content(version_json_path)
         IN  IF Get(fabric_profile, "mainClass", None) = None
             THEN [error |-> "Main class not found!", classpath_parts |-> <<>>]
             ELSE ClientJar(LibraryParts(vanilla_version_json, fabric_profile),
                            Exists(mc_jar))

\* launch_sequence from "Build launch configuration" on: the classpath, then the
\* spawn of the game process, which the operating system may refuse; any
\* exception ends in the handler, with no process.
LaunchConfiguration ==
    /\ \E popen_ok \in BOOLEAN, built \in {BuildClasspath} :
         LET error == IF built.error # None THEN built.error
                      ELSE IF popen_ok THEN None ELSE "Popen failed"
         IN  launch' = << [classpath |-> built.classpath_parts,
                           built |-> (built.error = None),
                           error |-> error,
                           spawned |-> (error = None),
                           mc_jar_existed |-> Exists(mc_jar)] >>
    /\ op' = "launch"
    /\ UNCHANGED <<vanilla_version_json, version_json_path, jars>>
    /\ UNCHANGED settingsVars /\ UNCHANGED modsVars /\ UNCHANGED assetsVars /\ UNCHANGED installVars

\* ---- the manifests and jars the builder is run on ----

MaxLibs == 2

\* base manifest entries: two with an artifact path, one with a name only (a
\* four-part coordinate, as natives have)
LibA == [name |-> <<"com", ".", "mojang", ":", "brigadier", ":", "1", ".", "1", ".", "8">>,
         downloads |-> [artifact |->
             [path |-> <<"com", "/", "mojang", "/", "brigadier", "/", "1.1.8", "/",
                         "brigadier-1.1.8.jar">>]]]
LibB == [name |-> <<"org", ".", "slf4j", ":", "slf4j-api", ":", "2", ".", "0", ".", "1">>,
         downloads |-> [artifact |->
             [path |-> <<"org", "/", "slf4j", "/", "slf4j-api", "/", "2.0.1", "/",
                         "slf4j-api-2.0.1.jar">>]]]
LibS == [name |-> <<"org", ".", "ow2", ".", "asm", ":", "asm", ":", "9", ".", "6", ":",
                    "natives-linux">>]
\* loader profile entries: a three-part coordinate, a four-part one, one without a
\* name; the loader profiles list them as FabricLists does
LibC == [name |-> <<"org", ".", "ow2", ".", "asm", ":", "asm", ":", "9", ".", "6">>,
         url |-> "https://maven.fabricmc.net/"]
LibQ == [name |-> <<"net", ".", "fabricmc", ":", "intermediary", ":", "1", ".", "20", ".", "1",
                    ":", "v2">>,
         url |-> "https://maven.fabricmc.net/"]
LibE == [url |-> "https://maven.fabricmc.net/"]

VanillaLibs == {LibA, LibB, LibS}

PathA == <<"libraries", "com", "mojang", "brigadier", "1.1.8", "brigadier-1.1.8.jar">>
PathB == <<"libraries", "org", "slf4j", "slf4j-api", "2.0.1", "slf4j-api-2.0.1.jar">>
PathC == <<"libraries", "org", "ow2", "asm", "asm", "9.6", "asm-9.6.jar">>
\* where download_fabric stores LibQ, whose coordinate has four parts
PathQ == jar_path(Split(LibQ.name, ":"))
AllJars == {PathA, PathB, PathC, PathQ, mc_jar}

SeqsUpTo(S, n) == UNION { [1..k -> S] : k \in 0..n }

VanillaFiles ==
    {NoFile, File([id |-> MCVERSION])}
        \cup { File([id |-> MCVERSION, libraries |-> libs]) : libs \in SeqsUpTo(VanillaLibs, MaxLibs) }
FabricLists ==
    { <<>>, <<LibC>>, <<LibQ>>, <<LibC, LibQ>>, <<LibE, LibC>>, <<LibC, LibC>> }
FabricFiles ==
    {NoFile, File([id |-> "fabric-loader"])}
        \cup { File([id |-> "fabric-loader",
                     mainClass |-> "net.fabricmc.loader.impl.launch.knot.KnotClient",
                     libraries |-> libs]) : libs \in FabricLists }

(***************************************************************************)
(* launcher.py: the tier and shader selection and prepare_mods             *)
(***************************************************************************)

\* A file name is <<stem, extension>>; glob("*.jar") and glob("*.zip") select by
\* the extension.
IsJar(file) == file[2] = "jar"
IsZip(file) == file[2] = "zip"
NoPack == <<>>
Reimagined == <<"ComplementaryReimagined_r5.6.1", "zip">>
Unbound == <<"ComplementaryUnbound_r5.6.1", "zip">>

\* default_mod_lists of load_mod_lists, written to mod_lists.json when the file
\* is missing
default_mod_lists ==
    [tiers |->
        ( "Very Low" :> [ram |-> 4, mod_folders |-> <<"base">>,
                         shader_policy |-> "DISALLOWED",
                         shaderpack_when_enabled |-> NoPack] ) @@
        ( "Low" :> [ram |-> 6, mod_folders |-> <<"base">>,
                    shader_policy |-> "DISALLOWED",
                    shaderpack_when_enabled |-> NoPack] ) @@
        ( "Medium" :> [ram |-> 8, mod_folders |-> <<"base", "medium">>,
                       shader_policy |-> "OPTIONAL",
                       shaderpack_when_enabled |-> Reimagined] ) @@
        ( "High" :> [ram |-> 10, mod_folders |-> <<"base", "medium">>,
                     shader_policy |-> "OPTIONAL",
                     shaderpack_when_enabled |-> Reimagined] ) @@
        ( "Very High" :> [ram |-> 12, mod_folders |-> <<"base", "medium", "heavy">>,
                          shader_policy |-> "OPTIONAL",
                          shaderpack_when_enabled |-> Reimagined] ) @@
        ( "Ultra" :> [ram |-> 16,
                      mod_folders |-> <<"base", "medium", "heavy", "ultimate">>,
                      shader_policy |-> "OPTIONAL",
                      shaderpack_when_enabled |-> Unbound] )]

\* A mod_lists.json that load_mod_lists reads instead: the same tiers, none of
\* which declares a mod folder.
folderless_mod_lists ==
    [tiers |-> [tier \in DOMAIN default_mod_lists.tiers |->
                    [default_mod_lists.tiers[tier] EXCEPT !.mod_folders = <<>>]]]

\* The category folders below base_dir/mods that mod_organizer.py lays out, with
\* the jars put into them.
mod_folders_on_disk ==
    ( "base" :> { <<"sodium", "jar">>, <<"lithium", "jar">> } ) @@
    ( "medium" :> { <<"continuity", "jar">> } ) @@
    ( "heavy" :> { <<"DistantHorizons", "jar">> } ) @@
    ( "ultimate" :> { <<"physics-mod", "jar">> } )

\* self.mods_source_dir: no statement of launcher.py assigns this attribute
mods_source_dir == None

\* "for category in mod_categories": reading self.mods_source_dir raises
\* AttributeError in the first iteration; were it set, each existing folder's
\* jars would be copied
RECURSIVE CopyRequiredMods(_, _, _)
CopyRequiredMods(mod_categories, i, copied) ==
    IF i > Len(mod_categories) THEN [error |-> None, copied |-> copied]
    ELSE IF mods_source_dir = None
         THEN [error |-> "AttributeError", copied |-> copied]
         ELSE CopyRequiredMods(mod_categories, i + 1,
                               copied \cup Get(mod_folders_on_disk, mod_categories[i], {}))

\* "Handle shaderpack": the live shaderpacks directory it leaves
HandleShaderpack(shaders_enabled, tier_config, dest, source) ==
    LET shaderpack_name == Get(tier_config, "shaderpack_when_enabled", NoPack)
    IN  IF /\ shaders_enabled /\ shaderpack_name # NoPack
           /\ Get(tier_config, "shader_policy", None) = "OPTIONAL"
        THEN IF shaderpack_name \in source THEN dest \cup {shaderpack_name} ELSE dest
        ELSE {old_shader \in dest : ~IsZip(old_shader)}

\* prepare_mods
prepare_mods ==
    LET tier == tier_var
        tier_config == mod_lists.tiers[tier]
        cleared == {mod_file \in live_mods : ~IsJar(mod_file)}
        copy == CopyRequiredMods(tier_config.mod_folders, 1, {})
        done(ret) ==
            /\ prepared' = << [tier |-> tier, shaders_enabled |-> shaders_var,
                               ret |-> ret] >>
            /\ op' = "prepare_mods"
    IN  /\ live_mods' = cleared \cup copy.copied
        /\ IF copy.error # None
           THEN /\ UNCHANGED live_shaders
                /\ done(copy.error)
           ELSE /\ live_shaders' = HandleShaderpack(shaders_var, tier_config,
                                                    live_shaders, shaderpacks_dir)
                /\ done("True")
        /\ UNCHANGED <<mod_lists, tier_var, shaders_var, shaderpacks_dir>>
        /\ UNCHANGED settingsVars /\ UNCHANGED classpathVars /\ UNCHANGED assetsVars /\ UNCHANGED installVars

\* The tier radio buttons: update_tier_description
update_tier_description(tier) ==
    /\ tier_var' = tier
    /\ shaders_var' =
          IF Get(mod_lists.tiers[tier], "shader_policy", "DISALLOWED") = "DISALLOWED"
          THEN FALSE ELSE shaders_var
    /\ op' = "select_tier"
    /\ UNCHANGED <<mod_lists, live_mods, live_shaders, shaderpacks_dir, prepared>>
    /\ UNCHANGED settingsVars /\ UNCHANGED classpathVars /\ UNCHANGED assetsVars /\ UNCHANGED installVars

SelectTier == \E tier \in DOMAIN mod_lists.tiers : tier # tier_var /\ update_tier_description(tier)

\* The shader checkbox, which is disabled while the tier's policy is DISALLOWED
on_shader_toggle ==
    /\ Get(mod_lists.tiers[tier_var], "shader_policy", "DISALLOWED") # "DISALLOWED"
    /\ shaders_var' = ~shaders_var
    /\ op' = "toggle_shaders"
    /\ UNCHANGED <<mod_lists, tier_var, live_mods, live_shaders, shaderpacks_dir, prepared>>
    /\ UNCHANGED settingsVars /\ UNCHANGED classpathVars /\ UNCHANGED assetsVars /\ UNCHANGED installVars

\* What the launcher may find in the live mods directory and in base_dir/shaderpacks
LiveModsBefore ==
    { {}, { <<"sodium", "jar">> }, { <<"old-mod", "jar">>, <<"notes", "txt">> } }
ShaderpackSources == { {Reimagined, Unbound}, {Unbound} }

(***************************************************************************)
(* setup_minecraft.py, download_assets (and the loop of the stand-alone    *)
(* download_assets.py): the content-addressed asset store                  *)
(***************************************************************************)

\* download_with_retry: retries attempts at most; the response is None when
\* every attempt raised.  failures is how many attempts in a row raise.
retries == 3
RetryFailures == 0..retries
RetryResponse(failures) == IF failures >= retries THEN None ELSE "response"

\* the outcomes of requests.get for one object: a 200 response, a response with
\* an error status, an exception (timeout, connection reset)
GetOutcomes == {"ok", "http error", "exception"}

\* download_with_retry, statement by statement.  The call sites pass a url and
\* leave timeout and retries at their defaults; the function takes any count.
RetryUrls == {"version_manifest_v2.json", "version.json", "asset index", "loader profile"}
RetryCounts == 0..retries
NoRetryCall ==
    [pc |-> "idle", url |-> None, retries |-> retries, attempt |-> 0,
     outcomes |-> <<>>, waits |-> <<>>, result |-> None]

\* "wait_time = (attempt + 1) * 2"
wait_flat(attempt_no) == 2
wait_time(attempt_no) == (attempt_no + 1) * 2

\* the call: "for attempt in range(retries)" starts, or has nothing to run and
\* the function falls through to "return None"
download_with_retry ==
    /\ retry.pc \in {"idle", "returned"}
    /\ \E url \in RetryUrls, count \in RetryCounts :
          retry' = [NoRetryCall EXCEPT !.url = url, !.retries = count,
                                       !.pc = IF count = 0 THEN "returned" ELSE "request"]
    /\ op' = "download_with_retry"
    /\ UNCHANGED settingsVars /\ UNCHANGED classpathVars /\ UNCHANGED modsVars
    /\ UNCHANGED assetsVars /\ UNCHANGED installVars /\ UNCHANGED launchVars
    /\ UNCHANGED instVars

\* one turn of the loop up to the sleep: requests.get with its timeout and
\* raise_for_status; a response is returned, a RequestException is answered
\* with a wait when attempts are left and with None when none is
RetryRequest ==
    /\ retry.pc = "request"
    /\ \E outcome \in GetOutcomes :
          LET made == [retry EXCEPT !.outcomes = Append(@, outcome)]
          IN  retry' =
                IF outcome = "ok"
                THEN [made EXCEPT !.pc = "returned", !.result = "response"]
                ELSE IF retry.attempt < retry.retries - 1
                THEN [made EXCEPT !.pc = "sleep",
                                  !.waits = Append(@, wait_time(retry.attempt))]
                ELSE [made EXCEPT !.pc = "returned", !.result = None]
    /\ op' = "retry_request"
    /\ UNCHANGED settingsVars /\ UNCHANGED classpathVars /\ UNCHANGED modsVars
    /\ UNCHANGED assetsVars /\ UNCHANGED installVars /\ UNCHANGED launchVars
    /\ UNCHANGED instVars

\* "time.sleep(wait_time)" returns and the loop takes the next attempt
RetrySleep ==
    /\ retry.pc = "sleep"
    /\ retry' = [retry EXCEPT !.pc = "request", !.attempt = @ + 1]
    /\ op' = "retry_sleep"
    /\ UNCHANGED settingsVars /\ UNCHANGED classpathVars /\ UNCHANGED modsVars
    /\ UNCHANGED assetsVars /\ UNCHANGED installVars /\ UNCHANGED launchVars
    /\ UNCHANGED instVars

\* asset_hash[:2] and objects_dir / hash_prefix / asset_hash; a hash is the
\* sequence of its hex digits
hash_prefix(asset_hash) == SubSeq(asset_hash, 1, 2)
asset_file(asset_hash) ==
    <<"assets", "objects", Join(hash_prefix(asset_hash)), Join(asset_hash)>>

\* asset_file.exists()
AssetNeverExists(store, path) == FALSE
AssetExists(store, path) == path \in DOMAIN store

\* what the loop body does with the outcome: the launcher's fetcher writes
\* response.content whatever the status, the stand-alone script calls
\* raise_for_status first
Written(script, outcome) ==
    IF outcome = "exception" THEN <<>>
    ELSE IF outcome = "http error"
         THEN IF script = "download_assets.py" THEN <<>> ELSE <<"error page">>
         ELSE <<"asset data">>

\* "except: pass" around the request and the write of one object or library:
\* no outcome of one entry ends the loop
stops_on_failure(outcome) == outcome # "ok"
loop_stops(outcome) == FALSE

\* download_assets up to the loop: the index is fetched with download_with_retry
\* and stored; when it cannot be fetched the run ends with no object looked at
DownloadAssetIndex ==
    /\ assets_run = "start"
    /\ \E failures \in RetryFailures :
          assets_run' = IF RetryResponse(failures) = None THEN "no index" ELSE "objects"
    /\ asset_i' = 1
    /\ network_used' = TRUE
    /\ op' = "asset_index"
    /\ UNCHANGED <<asset_index, objects, asset_gets, objects_before, fetcher>>
    /\ UNCHANGED settingsVars /\ UNCHANGED classpathVars /\ UNCHANGED modsVars
    /\ UNCHANGED installVars

\* one iteration of "for asset_name, asset_info in index_data['objects'].items()"
DownloadAssetObject ==
    /\ assets_run = "objects"
    /\ asset_i <= Len(asset_index)
    /\ LET asset_hash == asset_index[asset_i].hash
           path == asset_file(asset_hash)
       IN  IF AssetExists(objects, path)
           THEN /\ assets_run' = IF asset_i = Len(asset_index) THEN "done" ELSE "objects"
                /\ UNCHANGED <<objects, asset_gets, network_used>>
           ELSE \E outcome \in GetOutcomes :
                  LET written == Written(fetcher, outcome)
                  IN  /\ objects' = IF written = <<>> THEN objects
                                    ELSE (path :> written[1]) @@ objects
                      /\ asset_gets' = [asset_gets EXCEPT
                                            ![asset_hash] = Append(@, outcome)]
                      /\ network_used' = TRUE
                      /\ assets_run' = IF asset_i = Len(asset_index) \/ loop_stops(outcome)
                                       THEN "done" ELSE "objects"
    /\ asset_i' = asset_i + 1
    /\ op' = "asset_object"
    /\ UNCHANGED <<asset_index, objects_before, fetcher>>
    /\ UNCHANGED settingsVars /\ UNCHANGED classpathVars /\ UNCHANGED modsVars
    /\ UNCHANGED installVars

\* ---- the indexes and stores the fetcher is run on ----

MaxAssets == 3

\* three hashes, two of them with the same first two digits
Hashes == { <<"a", "b", "1">>, <<"a", "b", "2">>, <<"c", "d", "1">> }
NoGets == [h \in Hashes |-> <<>>]

\* index_data["objects"], in the order its items() come: 1..MaxAssets entries
AssetIndexes ==
    UNION { [1..n -> [hash : Hashes]] : n \in 1..MaxAssets }

\* the object store an earlier run left
StoresBefore ==
    { [p \in {} |-> ""], asset_file(<<"a", "b", "1">>) :> "asset data" }

(***************************************************************************)
(* launcher.py, setup_minecraft, with setup_minecraft.py's                  *)
(* check_installation, download_minecraft and download_fabric              *)
(***************************************************************************)

\* version_name = f"fabric-loader-{fabric_version}-{mc_version}" and the jar
\* check_installation looks for
version_name == "fabric-loader-" \o FABRICVERSION \o "-" \o MCVERSION
fabric_jar == <<"versions", version_name, version_name \o ".jar">>

\* check_installation
check_never(files) == FALSE
check_client_only(files) == mc_jar \in files
check_with_libraries(files) ==
    /\ fabric_jar \in files /\ mc_jar \in files
    /\ <<"libraries", "com", "mojang", "brigadier", "1.1.8", "brigadier-1.1.8.jar">>
          \in files
check_installation(files) == fabric_jar \in files /\ mc_jar \in files

\* What the servers answer with: the version metadata of MCVERSION, the loader
\* profile and the asset index.
version_data ==
    [id |-> MCVERSION, libraries |-> <<LibA, LibB, LibS>>,
     assetIndex |-> [id |-> "5"],
     downloads |-> [client |-> [url |-> "client.jar"]]]
loader_data ==
    [id |-> version_name,
     mainClass |-> "net.fabricmc.loader.impl.launch.knot.KnotClient",
     libraries |-> <<LibC, LibQ, LibE>>]
served_asset_index == << [hash |-> <<"a", "b", "1">>], [hash |-> <<"a", "b", "2">>] >>

\* the end of a setup_minecraft run: it returned False, or it got past the
\* install part (installed) and raised at "MinecraftServerList(...)", a name no
\* import of launcher.py binds
EndSetup(result, installed, used) ==
    /\ setup_pc' = "idle"
    /\ last_run' = << [result |-> result, installed |-> installed,
                       network_used |-> used] >>

\* setup_minecraft up to the end of "if not setup.check_installation()": the run
\* starts, and either goes on to download or takes the installed path, which
\* reads the asset index id from the stored version JSON
StartSetup ==
    /\ setup_pc = "idle"
    /\ run_after_success' = (last_run # NoCall /\ last_run[1].installed)
    /\ network_used' = FALSE
    /\ requested' = {}
    /\ IF ~check_installation(jars)
       THEN /\ setup_pc' = "manifest"
            /\ UNCHANGED asset_index_id
       ELSE /\ setup_pc' = "server_list"
            /\ asset_index_id' =
                  IF vanilla_version_json # NoFile
                     /\ "assetIndex" \in DOMAIN Content(vanilla_version_json)
                  THEN Content(vanilla_version_json).assetIndex.id ELSE MCVERSION
    /\ op' = "setup_start"
    /\ UNCHANGED <<lib_i, corrupt, last_run>>
    /\ UNCHANGED <<vanilla_version_json, version_json_path, jars, launch>>
    /\ UNCHANGED <<asset_index, objects, assets_run, asset_i, asset_gets,
                   objects_before, fetcher>>
    /\ UNCHANGED settingsVars /\ UNCHANGED modsVars

\* download_minecraft: the version manifest, with download_with_retry; the
\* manifest may not list the version
FetchManifest ==
    /\ setup_pc = "manifest"
    /\ network_used' = TRUE
    /\ requested' = requested \cup {<<"version_manifest_v2.json">>}
    /\ \E failures \in RetryFailures, listed \in BOOLEAN :
          IF RetryResponse(failures) = None \/ ~listed
          THEN EndSetup("False", FALSE, TRUE)
          ELSE setup_pc' = "version" /\ UNCHANGED last_run
    /\ op' = "manifest"
    /\ UNCHANGED <<lib_i, corrupt, run_after_success, asset_index_id>>
    /\ UNCHANGED <<vanilla_version_json, version_json_path, jars, launch>>
    /\ UNCHANGED <<asset_index, objects, assets_run, asset_i, asset_gets,
                   objects_before, fetcher>>
    /\ UNCHANGED settingsVars /\ UNCHANGED modsVars

\* download_minecraft: the version metadata, with download_with_retry
FetchVersion ==
    /\ setup_pc = "version"
    /\ network_used' = TRUE
    /\ requested' = requested \cup {<<"versions", MCVERSION, MCVERSION \o ".json">>}
    /\ \E failures \in RetryFailures :
          IF RetryResponse(failures) = None
          THEN EndSetup("False", FALSE, TRUE)
          ELSE setup_pc' = "client" /\ UNCHANGED last_run
    /\ op' = "version"
    /\ UNCHANGED <<lib_i, corrupt, run_after_success, asset_index_id>>
    /\ UNCHANGED <<vanilla_version_json, version_json_path, jars, launch>>
    /\ UNCHANGED <<asset_index, objects, assets_run, asset_i, asset_gets,
                   objects_before, fetcher>>
    /\ UNCHANGED settingsVars /\ UNCHANGED modsVars

\* download_minecraft: the client jar, streamed into the file unless it exists.
\* The request may fail before the file is opened, or the stream may break
\* after part of the file was written.
ClientOutcomes == {"ok", "no response", "broken stream"}
\* (the step as it would be without "if not client_jar.exists()")
DownloadClientAgain ==
    /\ setup_pc = "client"
    /\ network_used' = TRUE
    /\ requested' = requested \cup {mc_jar}
    /\ \E outcome \in ClientOutcomes :
          /\ jars' = IF outcome = "no response" THEN jars ELSE jars \cup {mc_jar}
          /\ corrupt' = IF outcome = "broken stream" THEN corrupt \cup {mc_jar}
                        ELSE IF outcome = "ok" THEN corrupt \ {mc_jar}
                        ELSE corrupt
          /\ IF outcome = "ok"
             THEN setup_pc' = "libraries" /\ UNCHANGED last_run
             ELSE EndSetup("False", FALSE, TRUE)
    /\ lib_i' = 1
    /\ op' = "client"
    /\ UNCHANGED <<run_after_success, asset_index_id>>
    /\ UNCHANGED <<vanilla_version_json, version_json_path, launch>>
    /\ UNCHANGED <<asset_index, objects, assets_run, asset_i, asset_gets,
                   objects_before, fetcher>>
    /\ UNCHANGED settingsVars /\ UNCHANGED modsVars
DownloadClient ==
    /\ setup_pc = "client"
    /\ IF mc_jar \in jars
       THEN /\ setup_pc' = "libraries"
            /\ UNCHANGED <<jars, corrupt, network_used, last_run, requested>>
       ELSE /\ network_used' = TRUE
            /\ requested' = requested \cup {mc_jar}
            /\ \E outcome \in ClientOutcomes :
                  /\ jars' = IF outcome = "no response" THEN jars ELSE jars \cup {mc_jar}
                  /\ corrupt' = IF outcome = "broken stream"
                                THEN corrupt \cup {mc_jar} ELSE corrupt
                  /\ IF outcome = "ok"
                     THEN setup_pc' = "libraries" /\ UNCHANGED last_run
                     ELSE EndSetup("False", FALSE, TRUE)
    /\ lib_i' = 1
    /\ op' = "client"
    /\ UNCHANGED <<run_after_success, asset_index_id>>
    /\ UNCHANGED <<vanilla_version_json, version_json_path, launch>>
    /\ UNCHANGED <<asset_index, objects, assets_run, asset_i, asset_gets,
                   objects_before, fetcher>>
    /\ UNCHANGED settingsVars /\ UNCHANGED modsVars

\* download_minecraft: one iteration of the libraries loop.  Only entries with
\* downloads.artifact are fetched; the response body is written whatever its
\* status, and an exception is passed over.  After the last library
\* download_assets is called.
DownloadLibrary ==
    /\ setup_pc = "libraries"
    /\ LET libraries == Get(version_data, "libraries", <<>>)
           library == libraries[lib_i]
           lib_path == libraries_dir \o PathOf(library.downloads.artifact.path, "/")
       IN  /\ IF lib_i > Len(libraries)
              THEN /\ setup_pc' = "assets"
                   /\ assets_run' = "start"
                   /\ asset_index' = served_asset_index
                   /\ asset_gets' = NoGets
                   /\ objects_before' = DOMAIN objects
                   /\ fetcher' = "setup_minecraft.py"
                   /\ lib_i' = 1
                   /\ UNCHANGED <<jars, corrupt, network_used, requested>>
              ELSE /\ UNCHANGED <<setup_pc, assets_run, asset_index, asset_gets,
                                  objects_before, fetcher>>
                   /\ IF "downloads" \in DOMAIN library
                         /\ "artifact" \in DOMAIN library.downloads
                         /\ ~Exists(lib_path)
                      THEN /\ network_used' = TRUE
                           /\ requested' = requested \cup {lib_path}
                           /\ \E outcome \in GetOutcomes :
                                 /\ jars' = IF outcome = "exception" THEN jars
                                            ELSE jars \cup {lib_path}
                                 /\ corrupt' = IF outcome = "http error"
                                               THEN corrupt \cup {lib_path} ELSE corrupt
                                 /\ lib_i' = IF loop_stops(outcome)
                                             THEN Len(libraries) + 1 ELSE lib_i + 1
                      ELSE /\ lib_i' = lib_i + 1
                           /\ UNCHANGED <<jars, corrupt, network_used, requested>>
    /\ op' = "library"
    /\ UNCHANGED <<run_after_success, asset_index_id, last_run>>
    /\ UNCHANGED <<vanilla_version_json, version_json_path, launch>>
    /\ UNCHANGED <<objects, asset_i>>
    /\ UNCHANGED settingsVars /\ UNCHANGED modsVars

\* download_minecraft as it would be if a missing asset index made it fail
SaveUnlessNoIndex ==
    /\ setup_pc = "assets"
    /\ assets_run \in {"done", "no index"}
    /\ IF assets_run = "no index"
       THEN /\ EndSetup("False", FALSE, network_used)
            /\ UNCHANGED <<vanilla_version_json, asset_index_id>>
       ELSE /\ vanilla_version_json' = File(version_data)
            /\ asset_index_id' = version_data.assetIndex.id
            /\ setup_pc' = "fabric"
            /\ UNCHANGED last_run
    /\ op' = "version_json"
    /\ UNCHANGED <<lib_i, corrupt, run_after_success, requested>>
    /\ UNCHANGED <<version_json_path, jars, launch>>
    /\ UNCHANGED assetsVars
    /\ UNCHANGED settingsVars /\ UNCHANGED modsVars

\* download_minecraft as it would be if it returned the id without saving the
\* version JSON
ReturnWithoutVersionJson ==
    /\ setup_pc = "assets"
    /\ assets_run \in {"done", "no index"}
    /\ asset_index_id' = version_data.assetIndex.id
    /\ setup_pc' = "fabric"
    /\ op' = "version_json"
    /\ UNCHANGED <<lib_i, corrupt, run_after_success, last_run, requested>>
    /\ UNCHANGED <<vanilla_version_json, version_json_path, jars, launch>>
    /\ UNCHANGED assetsVars
    /\ UNCHANGED settingsVars /\ UNCHANGED modsVars

\* download_minecraft after download_assets returned: the version JSON is
\* saved and the asset index id returned to setup_minecraft, which stores it
SaveVersionJson ==
    /\ setup_pc = "assets"
    /\ assets_run \in {"done", "no index"}
    /\ vanilla_version_json' = File(version_data)
    /\ asset_index_id' = version_data.assetIndex.id
    /\ setup_pc' = "fabric"
    /\ op' = "version_json"
    /\ UNCHANGED <<lib_i, corrupt, run_after_success, last_run, requested>>
    /\ UNCHANGED <<version_json_path, jars, launch>>
    /\ UNCHANGED assetsVars
    /\ UNCHANGED settingsVars /\ UNCHANGED modsVars

\* download_fabric: the loader profile, with download_with_retry, saved as the
\* profile JSON
FetchFabricProfile ==
    /\ setup_pc = "fabric"
    /\ network_used' = TRUE
    /\ requested' = requested \cup {<<"versions", version_name, version_name \o ".json">>}
    /\ \E failures \in RetryFailures :
          IF RetryResponse(failures) = None
          THEN /\ EndSetup("False", FALSE, TRUE)
               /\ UNCHANGED version_json_path
          ELSE /\ setup_pc' = "fabric_libraries"
               /\ version_json_path' = File(loader_data)
               /\ UNCHANGED last_run
    /\ lib_i' = 1
    /\ op' = "fabric_profile"
    /\ UNCHANGED <<corrupt, run_after_success, asset_index_id>>
    /\ UNCHANGED <<vanilla_version_json, jars, launch>>
    /\ UNCHANGED <<asset_index, objects, assets_run, asset_i, asset_gets,
                   objects_before, fetcher>>
    /\ UNCHANGED settingsVars /\ UNCHANGED modsVars

\* download_fabric: one iteration of the libraries loop (a coordinate of three
\* or more parts is fetched unless its jar exists; raise_for_status keeps an
\* error body out of the file), and after the last library the fabric jar is
\* copied from the client jar and True returned
DownloadFabricLibrary ==
    /\ setup_pc = "fabric_libraries"
    /\ LET libraries == Get(loader_data, "libraries", <<>>)
           library == libraries[lib_i]
           lib_name == Get(library, "name", <<>>)
       IN  IF lib_i > Len(libraries)
           THEN /\ jars' = IF fabric_jar \notin jars /\ mc_jar \in jars
                           THEN jars \cup {fabric_jar} ELSE jars
                /\ corrupt' = IF fabric_jar \notin jars /\ mc_jar \in corrupt
                              THEN corrupt \cup {fabric_jar} ELSE corrupt
                /\ setup_pc' = "server_list"
                /\ lib_i' = 1
                /\ UNCHANGED <<network_used, requested>>
           ELSE /\ lib_i' = lib_i + 1
                /\ UNCHANGED <<setup_pc, corrupt>>
                /\ \E parts \in {Split(lib_name, ":")} :
                     IF lib_name # <<>> /\ Len(parts) >= 3
                     THEN \E lib_path \in {jar_path(parts)} :
                            IF ~Exists(lib_path)
                            THEN /\ network_used' = TRUE
                                 /\ requested' = requested \cup {lib_path}
                                 /\ \E outcome \in GetOutcomes :
                                       jars' = IF outcome = "ok"
                                               THEN jars \cup {lib_path} ELSE jars
                            ELSE UNCHANGED <<jars, network_used, requested>>
                     ELSE UNCHANGED <<jars, network_used, requested>>
    /\ op' = "fabric_library"
    /\ UNCHANGED <<run_after_success, asset_index_id, last_run>>
    /\ UNCHANGED <<vanilla_version_json, version_json_path, launch>>
    /\ UNCHANGED <<asset_index, objects, assets_run, asset_i, asset_gets,
                   objects_before, fetcher>>
    /\ UNCHANGED settingsVars /\ UNCHANGED modsVars

\* setup_minecraft after the install part: "Configuring server list..." and
\* MinecraftServerList(self.minecraft_dir), which raises NameError unless the
\* name is bound; bound, add_gama_server runs and setup_minecraft returns True
ConfigureServerList ==
    /\ setup_pc = "server_list"
    /\ EndSetup(IF "MinecraftServerList" \in imports THEN "True" ELSE "NameError",
                TRUE, network_used)
    /\ op' = "server_list"
    /\ UNCHANGED <<lib_i, corrupt, run_after_success, asset_index_id, requested>>
    /\ UNCHANGED <<vanilla_version_json, version_json_path, jars, launch>>
    /\ UNCHANGED assetsVars
    /\ UNCHANGED settingsVars /\ UNCHANGED modsVars

(***************************************************************************)
(* launcher.py: launch_game, the worker thread of launch_sequence and the  *)
(* thread of monitor_game_process                                          *)
(***************************************************************************)

\* The names the import statements of launcher.py bind that the launch uses:
\* the file imports GamaUpdater and no MinecraftServerList.  with_server_list
\* is the namespace with "from server_list import MinecraftServerList" added,
\* under which setup_minecraft can return and the later steps can be reached.
launcher_imports == {"GamaUpdater"}
with_server_list == launcher_imports \cup {"MinecraftServerList"}

\* "ram = base_ram + 2 if (shaders_enabled and ...) else base_ram"
ram_flat(tier_config, shaders_enabled) == tier_config.ram
ram_for(tier_config, shaders_enabled) ==
    IF shaders_enabled /\ Get(tier_config, "shader_policy", None) = "OPTIONAL"
    THEN tier_config.ram + 2 ELSE tier_config.ram

\* update_ram_display: the figure shown next to the selection
update_ram_display ==
    LET tier_data == mod_lists.tiers[tier_var]
        base_ram == Get(tier_data, "ram", 10)
    IN  IF shaders_var /\ Get(tier_data, "shader_policy", None) = "OPTIONAL"
        THEN base_ram + 2 ELSE base_ram

\* 'tier_config.get("shaderpack_when_enabled") if shaders_enabled else None',
\* as the file name the settings manager is given
shaderpack_arg(tier_config, shaders_enabled) ==
    LET pack == Get(tier_config, "shaderpack_when_enabled", NoPack)
    IN  IF shaders_enabled /\ pack # NoPack THEN pack[1] \o "." \o pack[2] ELSE None

\* launch_game: the button's command.  An invalid username returns at once;
\* otherwise the selection is saved, the button disabled and the worker started.
\* The model follows the first MaxLaunches launches of a session.
MaxLaunches == 1
\* (launch_game as it would be without line 1052)
launch_game_button_left ==
    /\ launch_btn = "normal"
    /\ (IF attempt = NoCall THEN 0 ELSE attempt[1].number) < MaxLaunches
    /\ \E valid \in BOOLEAN :
         IF valid
         THEN /\ config' = << [last_tier |-> tier_var, use_shaders |-> shaders_var] >>
              /\ launch_btn' = "normal"
              /\ launch_pc' = "setup_minecraft"
              /\ attempt' = << [number |-> IF attempt = NoCall THEN 1
                                              ELSE attempt[1].number + 1,
                                saved |-> <<tier_var, shaders_var>>, steps |-> <<>>,
                                failed |-> None, mods |-> NoCall, tier |-> None,
                                settings |-> NoCall,
                                ram |-> 0, status |-> "Starting launch sequence..."] >>
              /\ UNCHANGED imports
         ELSE UNCHANGED launchVars
    /\ op' = "launch_game"
    /\ UNCHANGED sideVars
    /\ UNCHANGED settingsVars /\ UNCHANGED classpathVars /\ UNCHANGED modsVars
    /\ UNCHANGED assetsVars /\ UNCHANGED installVars
launch_game ==
    /\ launch_btn = "normal"
    /\ (IF attempt = NoCall THEN 0 ELSE attempt[1].number) < MaxLaunches
    /\ \E valid \in BOOLEAN :
         IF valid
         THEN /\ config' = << [last_tier |-> tier_var, use_shaders |-> shaders_var] >>
              /\ launch_btn' = "disabled"
              /\ launch_pc' = "setup_minecraft"
              /\ attempt' = << [number |-> IF attempt = NoCall THEN 1
                                              ELSE attempt[1].number + 1,
                                saved |-> <<tier_var, shaders_var>>, steps |-> <<>>,
                                failed |-> None, mods |-> NoCall, tier |-> None,
                                settings |-> NoCall,
                                ram |-> 0, status |-> "Starting launch sequence..."] >>
              /\ UNCHANGED imports
         ELSE UNCHANGED launchVars
    /\ op' = "launch_game"
    /\ UNCHANGED sideVars
    /\ UNCHANGED settingsVars /\ UNCHANGED classpathVars /\ UNCHANGED modsVars
    /\ UNCHANGED assetsVars /\ UNCHANGED installVars

\* A step of the worker went through: the next one is due.
StepDone(att, step, next) ==
    /\ attempt' = << [att EXCEPT !.steps = Append(@, step)] >>
    /\ launch_pc' = next
    /\ UNCHANGED <<imports, config, launch_btn>>

\* The worker as it would be without "return" after a failed step
LaunchGoesOn(att, step, status) ==
    /\ attempt' = << [att EXCEPT !.failed = step, !.status = status] >>
    /\ launch_btn' = "normal"
    /\ launch_pc' = IF step = "setup_minecraft" THEN "prepare_mods"
                    ELSE IF step = "prepare_mods" THEN "read_tier" ELSE "idle"
    /\ UNCHANGED <<imports, config>>

\* The worker ends without a game process: setup_minecraft or prepare_mods
\* returned False ("if not ...: configure(state="normal"); return"), or an
\* exception reached "except Exception as e", which re-enables the button too.
LaunchEnds(att, step, status) ==
    /\ attempt' = << [att EXCEPT !.failed = step, !.status = status] >>
    /\ launch_btn' = "normal"
    /\ launch_pc' = "idle"
    /\ UNCHANGED <<imports, config>>

\* "if not self.setup_minecraft()": the worker runs one step of setup_minecraft;
\* when that ends the run, the worker goes on, returns, or is in the handler
SetupMinecraft(step) ==
    /\ launch_pc = "setup_minecraft"
    /\ step
    /\ UNCHANGED sideVars
    /\ IF setup_pc' # "idle" THEN UNCHANGED launchVars
       ELSE LET result == last_run'[1].result
            IN  IF result = "True"
                THEN StepDone(attempt[1], "setup_minecraft", "prepare_mods")
                ELSE IF result = "False"
                THEN LaunchEnds(attempt[1], "setup_minecraft",
                                "Failed to download Minecraft")
                ELSE LaunchEnds(attempt[1], "setup_minecraft", "Launch error")

\* "if not self.prepare_mods()"
PrepareMods ==
    /\ launch_pc = "prepare_mods"
    /\ prepare_mods
    /\ UNCHANGED sideVars
    /\ LET used == [attempt[1] EXCEPT !.mods = <<tier_var, shaders_var>>]
       IN  IF prepared'[1].ret = "True"
           THEN StepDone(used, "prepare_mods", "read_tier")
           ELSE LaunchEnds(used, "prepare_mods", "Launch error")

\* "tier = self.tier_var.get()" and "tier_config = ...": the worker reads the
\* selected tier; the checkbox is read two statements later, and the player
\* may act in between
ReadTier ==
    /\ launch_pc = "read_tier"
    /\ attempt' = << [attempt[1] EXCEPT !.tier = tier_var] >>
    /\ launch_pc' = "apply_settings"
    /\ op' = "read_tier"
    /\ UNCHANGED sideVars
    /\ UNCHANGED <<imports, config, launch_btn>>
    /\ UNCHANGED settingsVars /\ UNCHANGED classpathVars /\ UNCHANGED modsVars
    /\ UNCHANGED assetsVars /\ UNCHANGED installVars

\* From "shaders_enabled = self.shaders_var.get()" to the end of "Configure
\* settings": the memory figure is computed and the settings are applied
ConfigureSettings ==
    /\ launch_pc = "apply_settings"
    /\ LET tier == attempt[1].tier
           tier_config == mod_lists.tiers[tier]
           shaders_enabled == shaders_var
           ram == ram_for(tier_config, shaders_enabled)
           used == [attempt[1] EXCEPT !.settings = <<tier, shaders_enabled>>,
                                      !.ram = ram]
       IN  /\ apply_settings(tier, shaders_enabled,
                             shaderpack_arg(tier_config, shaders_enabled), FALSE)
           /\ StepDone(used, "apply_settings", "classpath")
    /\ UNCHANGED sideVars
    /\ UNCHANGED classpathVars /\ UNCHANGED modsVars
    /\ UNCHANGED assetsVars /\ UNCHANGED installVars

\* From "Build launch configuration" to the start of the monitor thread
BuildAndSpawn ==
    /\ launch_pc = "classpath"
    /\ LaunchConfiguration
    /\ UNCHANGED sideVars
    /\ LET run == launch'[1]
           att == attempt[1]
       IN  IF run.spawned
           THEN /\ attempt' = << [att EXCEPT !.steps = @ \o <<"classpath", "spawn">>,
                                             !.status = "Game launched!"] >>
                /\ launch_pc' = "monitor"
                /\ UNCHANGED <<imports, config, launch_btn>>
           ELSE IF run.built
           THEN LaunchEnds([att EXCEPT !.steps = Append(@, "classpath")],
                           "spawn", "Launch error")
           ELSE LaunchEnds(att, "classpath", "Launch error")

\* monitor_game_process: process.wait() returns the exit code of the game
ExitCodes == {0, 1}
monitor_keeps_disabled ==
    /\ launch_pc = "monitor"
    /\ \E exit_code \in ExitCodes :
         attempt' = << [attempt[1] EXCEPT
                          !.status = IF exit_code = 0 THEN "Game closed normally"
                                     ELSE "Game crashed"] >>
    /\ launch_pc' = "idle"
    /\ op' = "monitor"
    /\ UNCHANGED sideVars
    /\ UNCHANGED <<imports, config, launch_btn>>
    /\ UNCHANGED settingsVars /\ UNCHANGED classpathVars /\ UNCHANGED modsVars
    /\ UNCHANGED assetsVars /\ UNCHANGED installVars
monitor_game_process ==
    /\ launch_pc = "monitor"
    /\ \E exit_code \in ExitCodes :
         attempt' = << [attempt[1] EXCEPT
                          !.status = IF exit_code = 0 THEN "Game closed normally"
                                     ELSE "Game crashed"] >>
    /\ launch_btn' = "normal"
    /\ launch_pc' = "idle"
    /\ op' = "monitor"
    /\ UNCHANGED sideVars
    /\ UNCHANGED <<imports, config>>
    /\ UNCHANGED settingsVars /\ UNCHANGED classpathVars /\ UNCHANGED modsVars
    /\ UNCHANGED assetsVars /\ UNCHANGED installVars

(***************************************************************************)
(* The specifications: one per component, each started from a game         *)
(* directory in which the other components have done nothing.             *)
(***************************************************************************)

\* A game directory nothing has been installed into and that was never launched.
NoSettings ==
    /\ options = NoFile /\ tracker = NoFile /\ iris = NoFile /\ dh = NoFile
    /\ call = NoCall
NoRuntime ==
    /\ vanilla_version_json = NoFile /\ version_json_path = NoFile
    /\ jars = {} /\ launch = NoCall

NoMods ==
    /\ mod_lists = default_mod_lists /\ tier_var = "High" /\ shaders_var = FALSE
    /\ live_mods = {} /\ live_shaders = {} /\ shaderpacks_dir = {}
    /\ prepared = NoCall

NoAssets ==
    /\ asset_index = <<>> /\ objects = [p \in {} |-> ""] /\ assets_run = "idle"
    /\ asset_i = 1 /\ asset_gets = NoGets /\ objects_before = {}
    /\ fetcher = "setup_minecraft.py" /\ network_used = FALSE

NoInstall ==
    /\ setup_pc = "idle" /\ lib_i = 1 /\ corrupt = {} /\ last_run = NoCall
    /\ run_after_success = FALSE /\ asset_index_id = None /\ requested = {}

\* No call of download_with_retry was made.
NoRetry == retry = NoRetryCall

\* No instance has called apply_settings.
NoInstances == inst = [i \in Instances |-> NoInstanceCall]

\* The launcher as started: no launch under way, the button enabled.
NoLaunch ==
    /\ imports = launcher_imports
    /\ config = NoCall /\ launch_btn = "normal" /\ launch_pc = "idle"
    /\ attempt = NoCall

InitSettings ==
    /\ options \in OptionFiles
    /\ tracker = NoFile
    /\ iris = NoFile
    /\ dh = NoFile
    /\ call = NoCall
    /\ NoRuntime /\ NoMods /\ NoAssets /\ NoInstall
    /\ NoLaunch /\ NoRetry /\ NoInstances
    /\ op = "init"

NextSettings ==
    \/ ApplySettings /\ UNCHANGED restVars
    \/ UserEditOptions /\ UNCHANGED restVars

SpecSettings == InitSettings /\ [][NextSettings]_vars

InitClasspath ==
    /\ vanilla_version_json \in VanillaFiles
    /\ version_json_path \in FabricFiles
    /\ jars \in SUBSET AllJars
    /\ launch = NoCall
    /\ NoSettings /\ NoMods /\ NoAssets /\ NoInstall
    /\ NoLaunch /\ NoRetry /\ NoInstances
    /\ op = "init"

NextClasspath == LaunchConfiguration /\ UNCHANGED restVars

SpecClasspath == InitClasspath /\ [][NextClasspath]_vars

InitMods ==
    /\ mod_lists \in {default_mod_lists, folderless_mod_lists}
    /\ tier_var \in DOMAIN mod_lists.tiers
    /\ shaders_var \in BOOLEAN
    /\ mod_lists.tiers[tier_var].shader_policy = "DISALLOWED" => shaders_var = FALSE
    /\ live_mods \in LiveModsBefore
    /\ live_shaders = {}
    /\ shaderpacks_dir \in ShaderpackSources
    /\ prepared = NoCall
    /\ NoSettings /\ NoRuntime /\ NoAssets /\ NoInstall
    /\ NoLaunch /\ NoRetry /\ NoInstances
    /\ op = "init"

NextMods ==
    \/ SelectTier /\ UNCHANGED restVars
    \/ on_shader_toggle /\ UNCHANGED restVars
    \/ prepare_mods /\ UNCHANGED restVars

SpecMods == InitMods /\ [][NextMods]_vars

InitAssets ==
    /\ asset_index \in AssetIndexes
    /\ objects \in StoresBefore
    /\ objects_before = DOMAIN objects
    /\ assets_run = "start"
    /\ asset_i = 1
    /\ asset_gets = NoGets
    /\ fetcher \in {"setup_minecraft.py", "download_assets.py"}
    /\ network_used = FALSE
    /\ NoSettings /\ NoRuntime /\ NoMods /\ NoInstall
    /\ NoLaunch /\ NoRetry /\ NoInstances
    /\ op = "init"

NextAssets ==
    \/ DownloadAssetIndex /\ UNCHANGED restVars
    \/ DownloadAssetObject /\ UNCHANGED restVars

SpecAssets == InitAssets /\ [][NextAssets]_vars

\* The installer starts on a game directory that is empty or holds the part of
\* the client jar an interrupted download left.
InitInstall ==
    /\ setup_pc = "idle" /\ lib_i = 1 /\ last_run = NoCall
    /\ run_after_success = FALSE /\ asset_index_id = None /\ requested = {}
    /\ jars \in { {}, {mc_jar} }
    /\ corrupt = jars
    /\ vanilla_version_json = NoFile /\ version_json_path = NoFile
    /\ launch = NoCall
    /\ asset_index = <<>> /\ objects \in StoresBefore /\ assets_run = "idle"
    /\ asset_i = 1 /\ asset_gets = NoGets /\ objects_before = {}
    /\ fetcher = "setup_minecraft.py" /\ network_used = FALSE
    /\ NoSettings /\ NoMods
    /\ NoLaunch /\ NoRetry /\ NoInstances
    /\ op = "init"

NextInstall ==
    \/ StartSetup /\ UNCHANGED restVars
    \/ FetchManifest /\ UNCHANGED restVars
    \/ FetchVersion /\ UNCHANGED restVars
    \/ DownloadClient /\ UNCHANGED restVars
    \/ DownloadLibrary /\ UNCHANGED restVars
    \/ DownloadAssetIndex /\ UNCHANGED restVars
    \/ DownloadAssetObject /\ UNCHANGED restVars
    \/ SaveVersionJson /\ UNCHANGED restVars
    \/ FetchFabricProfile /\ UNCHANGED restVars
    \/ DownloadFabricLibrary /\ UNCHANGED restVars
    \/ ConfigureServerList /\ UNCHANGED restVars

SpecInstall == InitInstall /\ [][NextInstall]_vars

\* A mod_lists.json that keeps two of the presets of the given one: one whose
\* policy is DISALLOWED and one whose policy is OPTIONAL.
two_tiers(lists) == [tiers |-> [tier \in {"Low", "Ultra"} |-> lists.tiers[tier]]]

\* Game directories the launcher is started on: one a complete install left;
\* one in which download_minecraft completed and download_fabric failed at the
\* profile; one in which the launcher was closed, and its daemon worker with
\* it, after download_fabric had saved the profile; a complete install whose
\* loader profile was removed afterwards.
installed_dir ==
    [jars |-> {mc_jar, fabric_jar, PathA, PathB, PathC, PathQ},
     vanilla_version_json |-> File(version_data),
     version_json_path |-> File(loader_data)]
GameDirs ==
    { installed_dir,
      [installed_dir EXCEPT !.jars = {mc_jar, PathA, PathB}, !.version_json_path = NoFile],
      [installed_dir EXCEPT !.jars = {mc_jar, PathA, PathB}],
      [installed_dir EXCEPT !.version_json_path = NoFile] }

\* The launcher is started with presets that declare mod folders or with
\* presets that declare none, and the
\* player selects, toggles and launches while the worker and the monitor run.
InitLaunch ==
    /\ imports \in {launcher_imports, with_server_list}
    /\ config = NoCall /\ launch_btn = "normal" /\ launch_pc = "idle"
    /\ attempt = NoCall
    /\ mod_lists \in {two_tiers(default_mod_lists), two_tiers(folderless_mod_lists)}
    /\ tier_var \in DOMAIN mod_lists.tiers /\ shaders_var = FALSE
    /\ live_mods = {} /\ live_shaders = {} /\ shaderpacks_dir = {Reimagined, Unbound}
    /\ prepared = NoCall
    /\ \E d \in GameDirs :
          /\ jars = d.jars
          /\ vanilla_version_json = d.vanilla_version_json
          /\ version_json_path = d.version_json_path
    /\ launch = NoCall
    /\ objects = (asset_file(<<"a", "b", "1">>) :> "asset data")
                    @@ (asset_file(<<"a", "b", "2">>) :> "asset data")
    /\ asset_index = <<>> /\ assets_run = "idle" /\ asset_i = 1 /\ asset_gets = NoGets
    /\ objects_before = {} /\ fetcher = "setup_minecraft.py" /\ network_used = FALSE
    /\ NoSettings /\ NoInstall /\ NoRetry /\ NoInstances
    /\ op = "init"

NextLaunch ==
    \/ SelectTier /\ UNCHANGED restVars
    \/ on_shader_toggle /\ UNCHANGED restVars
    \/ launch_game
    \/ SetupMinecraft(StartSetup)
    \/ SetupMinecraft(FetchManifest)
    \/ SetupMinecraft(FetchVersion)
    \/ SetupMinecraft(DownloadClient)
    \/ SetupMinecraft(DownloadLibrary)
    \/ SetupMinecraft(DownloadAssetIndex)
    \/ SetupMinecraft(DownloadAssetObject)
    \/ SetupMinecraft(SaveVersionJson)
    \/ SetupMinecraft(FetchFabricProfile)
    \/ SetupMinecraft(DownloadFabricLibrary)
    \/ SetupMinecraft(ConfigureServerList)
    \/ PrepareMods
    \/ ReadTier
    \/ ConfigureSettings
    \/ BuildAndSpawn
    \/ monitor_game_process

SpecLaunch == InitLaunch /\ [][NextLaunch]_vars

\* download_with_retry is called over and over, with any url and count, and
\* each request ends in any of its outcomes; requests.get carries a timeout and
\* time.sleep returns, so a call that has started takes its next step.
InitRetry ==
    /\ NoRetry
    /\ NoSettings /\ NoRuntime /\ NoMods /\ NoAssets /\ NoInstall /\ NoLaunch
    /\ NoInstances
    /\ op = "init"

NextRetry ==
    \/ download_with_retry
    \/ RetryRequest
    \/ RetrySleep

SpecRetry == InitRetry /\ [][NextRetry]_vars
FairRetry == SpecRetry /\ WF_vars(RetryRequest) /\ WF_vars(RetrySleep)

\* Two launchers run on one game directory, each calling apply_settings for a
\* tier and a shader flag of its own, again and again.
InitInstances ==
    /\ NoInstances
    /\ NoSettings /\ NoRuntime /\ NoMods /\ NoAssets /\ NoInstall /\ NoLaunch
    /\ NoRetry
    /\ op = "init"

NextInstances ==
    \E i \in Instances :
        \/ LoadTrackerStep(i)
        \/ UseSavedStep(i)
        \/ WriteOptionsStep(i)
        \/ ShadersStep(i)
        \/ SaveTrackerStep(i)

SpecInstances == InitInstances /\ [][NextInstances]_vars

\* The same with the threads scheduled: the worker is a thread whose every
\* request carries a timeout and whose retries are counted, so each of its
\* steps is taken once it is due; the monitor's process.wait() returns when
\* the game process exits, which a game process does.  The steps that apply
\* the settings and that build the classpath and spawn are due whenever the
\* worker is at them; their fairness is stated on the worker's position, which
\* spares parsing options.txt and resolving every library for the enabledness
\* of the step.
WorkerStep ==
    \/ SetupMinecraft(StartSetup)
    \/ SetupMinecraft(FetchManifest)
    \/ SetupMinecraft(FetchVersion)
    \/ SetupMinecraft(DownloadClient)
    \/ SetupMinecraft(DownloadLibrary)
    \/ SetupMinecraft(DownloadAssetIndex)
    \/ SetupMinecraft(DownloadAssetObject)
    \/ SetupMinecraft(SaveVersionJson)
    \/ SetupMinecraft(FetchFabricProfile)
    \/ SetupMinecraft(DownloadFabricLibrary)
    \/ SetupMinecraft(ConfigureServerList)
    \/ PrepareMods
    \/ ReadTier
LeavesStep ==
    \/ launch_pc = "apply_settings" /\ launch_pc' \in {"classpath"}
    \/ launch_pc = "classpath" /\ launch_pc' \in {"monitor", "idle"}
FairLaunch ==
    /\ SpecLaunch
    /\ WF_vars(WorkerStep) /\ WF_launch_pc(LeavesStep)
    /\ WF_vars(monitor_game_process)

(***************************************************************************)
(* Claims about the settings reconciler, checked under SpecSettings.       *)
(***************************************************************************)

C9_ShaderFlagChangeDetected ==
    ( /\ call # NoCall /\ op = "apply_settings"
      /\ call[1].tier \in Tiers
      /\ ~call[1].tier_changed /\ call[1].shader_changed )
        => /\ call[1].ret = TRUE
           /\ "iris" \in call[1].wrote
           /\ iris # NoFile
           /\ Content(iris)[1] =
                 <<"enableShaders", "=",
                   IF call[1].shaders_enabled /\ call[1].shaderpack # None
                   THEN "true" ELSE "false">>
           /\ tracker = File([last_tier_used |-> call[1].tier,
                              last_shaders_used |-> call[1].shaders_enabled])

\* C9's case: only the flag changed, and options.txt came out as it was.
C9_Witness ==
    /\ call # NoCall /\ op = "apply_settings"
    /\ call[1].tier \in Tiers /\ ~call[1].force
    /\ ~call[1].tier_changed /\ call[1].shader_changed
    /\ call[1].ret = TRUE /\ call[1].options_kept

\* the keys the preset governs in options.txt
GovernedKeys ==
    { <<"renderDistance">>, <<"simulationDistance">>, <<"graphicsMode">>,
      <<"enableVsync">>, <<"maxFps">>, <<"fancyGraphics">>, <<"particles">>,
      <<"fov">>, <<"entityShadows">>, <<"bobView">>, <<"guiScale">>,
      <<"mipmapLevels">>, <<"biomeBlendRadius">>, <<"ao">>, <<"renderClouds">> }

\* C10 (merge): a step of apply_settings that rewrites options.txt keeps the
\* value of every key of the file that the preset does not govern, adds no
\* other key, and gives the governed keys the preset's values.
C10_UnknownKeysPreserved ==
    [][ (op' = "apply_settings" /\ "options" \in call'[1].wrote)
          => LET old == ReadOptions(options)
                 new == ReadOptions(options')
                 preset == tier_settings[call'[1].tier]
             IN  /\ \A k \in DOMAIN old \ GovernedKeys :
                        k \in DOMAIN new /\ new[k] = old[k]
                 /\ DOMAIN new = DOMAIN old \cup GovernedKeys
                 /\ new[<<"renderDistance">>] = <<ToString(preset.renderDistance)>>
                 /\ new[<<"fancyGraphics">>] =
                        <<IF preset.fancyGraphics THEN "true" ELSE "false">>
                 /\ new[<<"renderClouds">>] =
                        <<IF preset.clouds THEN "true" ELSE "false">> ]_vars

\* C10's case: options.txt held a key the preset does not govern and a governed
\* key with the player's value, and apply_settings rewrote the file.
C10_Witness ==
    /\ op = "apply_settings" /\ call # NoCall
    /\ "options" \in call[1].wrote /\ ~call[1].options_kept
    /\ <<"lang">> \in DOMAIN ReadOptions(options)
    /\ ~call[1].shader_changed

C24_UnchangedPathFrame ==
    [][ ( /\ op' = "apply_settings"
          /\ call'[1].tier \in Tiers /\ ~call'[1].force
          /\ ~call'[1].tier_changed /\ ~call'[1].shader_changed )
        => /\ options' = options /\ tracker' = tracker
           /\ iris' =
                 IF call'[1].shaders_enabled /\ call'[1].shaderpack # None
                 THEN File(<< <<"enableShaders", "=", "true">>,
                              <<"shaderPack", "=", call'[1].shaderpack>>,
                              <<"maxShadowRenderDistance", "=", "32">> >>)
                 ELSE File(<< <<"enableShaders", "=", "false">>,
                              <<"shaderPack", "=">> >>)
           /\ IF tier_settings[call'[1].tier].distant_horizons
              THEN dh' = File(ConfigureDistantHorizons(tier_settings[call'[1].tier]))
              ELSE dh' = dh
      ]_vars

\* C24's case: the tracker records (Ultra, shaders on), the marker file says
\* enabled, and the call comes with the flag on and no package: the marker is
\* rewritten to disabled and the Distant Horizons config is written
C24_Witness ==
    /\ op = "apply_settings" /\ call # NoCall
    /\ call[1].tier = "Ultra" /\ ~call[1].force
    /\ ~call[1].tier_changed /\ ~call[1].shader_changed
    /\ call[1].shaders_enabled /\ call[1].shaderpack = None
    /\ ~call[1].ret /\ call[1].wrote = {"iris", "dh"}
    /\ iris = File(<< <<"enableShaders", "=", "false">>, <<"shaderPack", "=">> >>)
    /\ dh # NoFile

(***************************************************************************)
(* Claims about the classpath builder, checked under SpecClasspath.        *)
(***************************************************************************)

\* the libraries lists the last launch read
VanillaLibraries ==
    IF vanilla_version_json = NoFile THEN <<>>
    ELSE Get(Content(vanilla_version_json), "libraries", <<>>)
FabricLibraries ==
    IF version_json_path = NoFile THEN <<>>
    ELSE Get(Content(version_json_path), "libraries", <<>>)

\* the resolved paths of a list that exist, in the list's order
RECURSIVE ExistingInOrder(_)
ExistingInOrder(resolved) ==
    IF resolved = <<>> THEN <<>>
    ELSE (IF Head(resolved) # <<>> /\ Head(resolved)[1] \in jars
          THEN Head(resolved) ELSE <<>>) \o ExistingInOrder(Tail(resolved))

\* C3 (classpath ordering): a classpath that was built is the existing base
\* library paths in manifest order, then the existing loader library paths in
\* manifest order, then the client jar; for base [A,B], loader [C] it is
\* [A,B,C,M] when all exist and [A,C,M] when B's file is missing.
C3_ClasspathOrdering ==
    (launch # NoCall /\ launch[1].built) =>
        /\ launch[1].classpath =
              ExistingInOrder([i \in 1..Len(VanillaLibraries) |->
                                    VanillaLibPath(VanillaLibraries[i])])
              \o ExistingInOrder([i \in 1..Len(FabricLibraries) |->
                                    FabricLibPath(FabricLibraries[i])])
              \o <<mc_jar>>
        /\ (VanillaLibraries = <<LibA, LibB>> /\ FabricLibraries = <<LibC>>) =>
              /\ {PathA, PathB, PathC} \subseteq jars
                    => launch[1].classpath = <<PathA, PathB, PathC, mc_jar>>
              /\ ({PathA, PathC} \subseteq jars /\ PathB \notin jars)
                    => launch[1].classpath = <<PathA, PathC, mc_jar>>

\* C3's case: base [A,B], loader [C], B's file missing, classpath [A,C,M].
C3_Witness ==
    /\ launch # NoCall /\ launch[1].built
    /\ VanillaLibraries = <<LibA, LibB>> /\ FabricLibraries = <<LibC>>
    /\ PathB \notin jars
    /\ launch[1].classpath = <<PathA, PathC, mc_jar>>

\* C4 (de-duplicated classpath): no path occurs twice in a classpath that was built.
C4_NoDuplicatePath ==
    (launch # NoCall /\ launch[1].built) =>
        \A i, j \in 1..Len(launch[1].classpath) :
            i # j => launch[1].classpath[i] # launch[1].classpath[j]

\* C5 (classpath fatal case): a launch that found no client jar built no
\* classpath, ended in an error and spawned no process, whatever libraries exist.
C5_MissingClientJarIsFatal ==
    (launch # NoCall /\ ~launch[1].mc_jar_existed) =>
        /\ ~launch[1].built
        /\ launch[1].error # None
        /\ ~launch[1].spawned

\* C5's case: profile, main class and libraries are there, only the client jar
\* is not.
C5_Witness ==
    /\ launch # NoCall /\ ~launch[1].mc_jar_existed
    /\ {PathA, PathC} \subseteq jars
    /\ VanillaLibraries = <<LibA>> /\ FabricLibraries = <<LibC>>
    /\ launch[1].error = "Minecraft JAR not found!"
    /\ ~launch[1].spawned

\* C28: the installer and the classpath builder agree on loader libraries.
\* Every library of the loader profile whose name has at least three parts
\* (what download_fabric accepts and stores at jar_path) and whose file exists
\* is in the classpath that was built, at that path.
C28_LoaderLibrariesAgree ==
    (launch # NoCall /\ launch[1].built) =>
        \A i \in 1..Len(FabricLibraries) :
            LET lib_name == Get(FabricLibraries[i], "name", <<>>)
                parts == Split(lib_name, ":")
            IN  (lib_name # <<>> /\ Len(parts) >= 3 /\ jar_path(parts) \in jars)
                  => \E k \in 1..Len(launch[1].classpath) :
                         launch[1].classpath[k] = jar_path(parts)

(***************************************************************************)
(* Claims about prepare_mods, checked under SpecMods.                      *)
(***************************************************************************)

\* the jars of the category folders the selected tier declares
DeclaredMods ==
    UNION { Get(mod_folders_on_disk, mod_lists.tiers[prepared[1].tier].mod_folders[i], {}) :
                i \in 1..Len(mod_lists.tiers[prepared[1].tier].mod_folders) }

\* C6 (mod full-replace): right after prepare_mods the jars in the live mods
\* directory are exactly the jars of the tier's declared category folders.
C6_ModFullReplace ==
    (op = "prepare_mods")
        => {mod_file \in live_mods : IsJar(mod_file)} = DeclaredMods

\* the package the (tier, flag) of the last prepare_mods calls for
DerivedShaderpacks ==
    LET tier_config == mod_lists.tiers[prepared[1].tier]
    IN  IF /\ prepared[1].shaders_enabled
           /\ tier_config.shader_policy = "OPTIONAL"
           /\ tier_config.shaderpack_when_enabled # NoPack
        THEN {tier_config.shaderpack_when_enabled} ELSE {}

\* C7 (derived shader directory): right after a prepare_mods that returned True
\* and found the package it needed in base_dir/shaderpacks, the packages in the
\* live shader directory are exactly the tier's package when shaders are on,
\* the policy is OPTIONAL and a package is named, and none otherwise.
C7_ShaderDirDerived ==
    ( /\ op = "prepare_mods" /\ prepared[1].ret = "True"
      /\ DerivedShaderpacks \subseteq shaderpacks_dir )
        => {pack \in live_shaders : IsZip(pack)} = DerivedShaderpacks

(***************************************************************************)
(* Claims about the asset fetcher, checked under SpecAssets.               *)
(***************************************************************************)

\* the hashes more than one entry of the index names
SharedHashes ==
    { h \in Hashes : \E i, j \in 1..Len(asset_index) :
                        i # j /\ asset_index[i].hash = h /\ asset_index[j].hash = h }

\* the files of the store that hold the object with this hash
FilesOf(h) == { p \in DOMAIN objects : p[Len(p)] = Join(h) }

\* the GET requests for a hash that led to a write of its file
WritesOf(h) ==
    Cardinality({ k \in 1..Len(asset_gets[h]) : Written(fetcher, asset_gets[h][k]) # <<>> })

\* C8 as stated (content addressing): after a run, a hash that two entries share
\* has exactly one file, at objects/<first two digits>/<hash>, and was fetched once.
C8_OneFileFetchedOnce ==
    (assets_run = "done") =>
        \A h \in SharedHashes :
            /\ FilesOf(h) = {asset_file(h)}
            /\ Len(asset_gets[h]) = 1

\* C8 as the fetcher keeps it: a hash that entries share never has a file other
\* than objects/<first two digits>/<hash>, the file is written at most once in
\* a run and never when it was there before the run, in which case nothing is
\* fetched; a fetch is repeated only after one that wrote nothing; and after a
\* run in which the file was missing and the first fetch wrote it, there is
\* exactly one file, fetched once.
C8_OneFileWrittenOnce ==
    \A h \in SharedHashes :
        /\ FilesOf(h) \subseteq {asset_file(h)}
        /\ WritesOf(h) <= 1
        /\ asset_file(h) \in objects_before => asset_gets[h] = <<>>
        /\ \A k \in 1..(Len(asset_gets[h]) - 1) : Written(fetcher, asset_gets[h][k]) = <<>>
        /\ ( /\ assets_run = "done"
             /\ asset_file(h) \notin objects_before
             /\ asset_gets[h] # <<>> /\ Written(fetcher, asset_gets[h][1]) # <<>> )
              => (FilesOf(h) = {asset_file(h)} /\ Len(asset_gets[h]) = 1)
        /\ (assets_run = "done" /\ asset_file(h) \notin objects_before)
              => asset_gets[h] # <<>>

\* C8's case: two entries share a hash whose file was missing, the first fetch
\* wrote it and the second entry found it.
C8_Witness ==
    /\ assets_run = "done"
    /\ Len(asset_index) >= 2 /\ asset_index[1].hash = asset_index[2].hash
    /\ asset_file(asset_index[1].hash) \notin objects_before
    /\ asset_gets[asset_index[1].hash] = <<"ok">>
    /\ FilesOf(asset_index[1].hash) = {asset_file(asset_index[1].hash)}

(***************************************************************************)
(* Claims about the runtime installer, checked under SpecInstall.          *)
(***************************************************************************)

\* C1 (idempotent install): in a run that follows a run whose install part
\* succeeded (check_installation held, or download_minecraft and download_fabric
\* both succeeded), no network request is made: the run takes the installed path.
C1_IdempotentInstall ==
    run_after_success =>
        /\ ~network_used
        /\ setup_pc \in {"idle", "server_list"}
        /\ (setup_pc = "idle" /\ last_run # NoCall) => ~last_run[1].network_used

\* C1's case: the second run is over; the first one downloaded the runtime.
C1_Witness ==
    /\ run_after_success /\ setup_pc = "idle" /\ op = "server_list"
    /\ last_run[1].installed /\ ~last_run[1].network_used
    /\ PathA \in jars /\ PathC \in jars /\ vanilla_version_json # NoFile
    /\ asset_file(<<"a", "b", "1">>) \in DOMAIN objects

\* C14: in a run of the installer a library file or an asset object whose
\* path exists when the loop comes to it is neither requested nor written:
\* every jar and every object that exists before a step exists after it with
\* the same content, no request is sent for an existing jar, and no GET is
\* added for an asset whose object exists.
C14_ExistingLeftAlone ==
    [][ /\ \A p \in jars :
              /\ p \in jars'
              /\ (p \in corrupt') = (p \in corrupt)
              /\ p \notin requested' \ requested
        /\ \A p \in DOMAIN objects :
              p \in DOMAIN objects' /\ objects'[p] = objects[p]
        /\ \A h \in Hashes :
              asset_file(h) \in DOMAIN objects =>
                  asset_gets'[h] = asset_gets[h] \/ asset_gets'[h] = <<>>
      ]_vars

\* A second run has passed a library and an asset object that the first one
\* had left on disk, without a request for either.
C14_Witness ==
    /\ setup_pc = "assets" /\ assets_run = "done"
    /\ run_after_success = FALSE /\ last_run # NoCall
    /\ PathA \in jars /\ PathA \notin requested
    /\ asset_file(<<"a", "b", "1">>) \in objects_before
    /\ asset_gets[<<"a", "b", "1">>] = <<>>

\* C18: when the asset index cannot be fetched on any attempt, the installer
\* step fails: download_minecraft does not return the asset index id for that
\* run, so the run never gets past download_minecraft.
C18_IndexFailureIsFatal ==
    assets_run = "no index" => setup_pc \in {"assets", "idle"} /\ asset_index_id = None

\* C18 as the code has it: when the asset index cannot be fetched on any
\* attempt, download_assets returns with no object requested or written, and
\* download_minecraft goes on: it saves the version JSON and returns the asset
\* index id, and setup_minecraft proceeds to download_fabric.
C18_IndexFailureTolerated ==
    /\ [](assets_run = "no index" =>
              /\ \A h \in Hashes : asset_gets[h] = <<>>
              /\ DOMAIN objects = objects_before)
    /\ [][ (assets_run = "no index" /\ setup_pc = "assets") =>
              /\ setup_pc' = "fabric"
              /\ asset_index_id' = version_data.assetIndex.id
              /\ vanilla_version_json' = File(version_data)
              /\ UNCHANGED <<objects, last_run>>
         ]_vars

\* The index could not be fetched and download_minecraft has returned the id.
C18_Witness ==
    /\ assets_run = "no index" /\ setup_pc = "fabric"
    /\ asset_index_id = "5"
    /\ vanilla_version_json # NoFile

\* C19: a failing fetch of one library or one asset object does not abort the
\* batch.  When the asset loop of a run is over, every library of the version
\* metadata that has an artifact was requested in this run or is present, and
\* every object of the asset index was requested in this run or was present
\* before it; no step of the library loop or of download_assets ends the
\* installer step, and the step after the asset loop saves the version JSON and
\* returns the asset index id.
C19_FailureDoesNotAbort ==
    /\ []((setup_pc = "assets" /\ assets_run = "done") =>
             /\ \A i \in 1..Len(version_data.libraries) :
                   LET library == version_data.libraries[i]
                   IN  "downloads" \in DOMAIN library =>
                         LET lib_path == libraries_dir
                                           \o PathOf(library.downloads.artifact.path, "/")
                         IN  lib_path \in requested \/ lib_path \in jars
             /\ \A i \in 1..Len(asset_index) :
                   \/ asset_file(asset_index[i].hash) \in objects_before
                   \/ asset_gets[asset_index[i].hash] # <<>>)
    /\ [][ (setup_pc \in {"libraries", "assets"}) =>
               /\ setup_pc' \in {"libraries", "assets", "fabric"}
               /\ last_run' = last_run
         ]_vars
    /\ [][ (setup_pc = "assets" /\ assets_run = "done") =>
               /\ setup_pc' = "fabric"
               /\ asset_index_id' = version_data.assetIndex.id
         ]_vars

\* a run in which the first library and the first object could not be fetched:
\* the second of each was fetched, and the id was returned
C19_Witness ==
    /\ setup_pc = "fabric" /\ asset_index_id = version_data.assetIndex.id
    /\ PathA \in requested /\ PathA \notin jars
    /\ PathB \in requested /\ PathB \in jars /\ PathB \notin corrupt
    /\ asset_gets[<<"a", "b", "1">>] = <<"exception">>
    /\ asset_gets[<<"a", "b", "2">>] = <<"ok">>
    /\ asset_file(<<"a", "b", "1">>) \notin DOMAIN objects
    /\ asset_file(<<"a", "b", "2">>) \in DOMAIN objects

\* C20: a bulk download of one asset object or one library that fails, by an
\* exception or by an error status, writes nothing: an object whose requests
\* of this run all failed has no file, and no library requested in this run
\* has a file that holds something else than the artifact.
C20_FailedWritesNothing ==
    /\ \A h \in Hashes :
          (/\ asset_gets[h] # <<>>
           /\ \A k \in DOMAIN asset_gets[h] : asset_gets[h][k] # "ok")
             => asset_file(h) \notin DOMAIN objects
    /\ \A p \in {PathA, PathB, PathC, PathQ} :
          (p \in requested /\ p \in corrupt) => p \notin jars

\* C22: the base version descriptor is fetched and written only in a run in
\* which its local copy is missing.  Right after a run has fetched it (the
\* client jar is next, and nothing has written the copy since the run started)
\* there is no local copy, and the step that writes it finds none.
C22_FetchedOnlyWhenMissing ==
    /\ setup_pc = "client" => vanilla_version_json = NoFile
    /\ (setup_pc = "assets" /\ assets_run \in {"done", "no index"})
          => vanilla_version_json = NoFile

\* C25: a failed download of the client jar can leave a partial file that a
\* later run takes as downloaded.  Once the client jar on disk is a partial
\* file, no step requests the client jar again or replaces the file; and a
\* state is reachable (C25_Witness) in which a run that found the partial file
\* downloaded the rest, made the loader jar from it and got past the install
\* part with check_installation true.
C25_PartialClientMasks ==
    [][ (mc_jar \in jars /\ mc_jar \in corrupt) =>
          /\ mc_jar \in jars' /\ mc_jar \in corrupt'
          /\ mc_jar \notin requested' \ requested
          /\ (fabric_jar \in jars' \ jars) => fabric_jar \in corrupt'
      ]_vars

C25_Witness ==
    /\ setup_pc = "idle" /\ last_run # NoCall
    /\ last_run[1].installed /\ last_run[1].network_used
    /\ check_installation(jars)
    /\ mc_jar \in corrupt /\ mc_jar \notin requested
    /\ fabric_jar \in corrupt
    /\ <<"version_manifest_v2.json">> \in requested

\* C26: once both jars check_installation looks for exist, no step of any
\* run sends a request or writes a jar or an asset object: what the
\* completing run failed to fetch stays absent.
C26_NoRepairOnceInstalled ==
    [][ (fabric_jar \in jars /\ mc_jar \in jars) =>
          /\ jars' = jars /\ objects' = objects
          /\ requested' \subseteq requested
          /\ network_used' => network_used
      ]_vars

\* C26's case: the run after the one that completed the installation has
\* ended, without a request, and the library and the asset object whose
\* fetches failed are still missing
C26_Witness ==
    /\ setup_pc = "idle" /\ run_after_success /\ last_run # NoCall
    /\ last_run[1].installed /\ ~last_run[1].network_used
    /\ requested = {}
    /\ PathA \notin jars /\ PathC \notin jars
    /\ asset_file(<<"a", "b", "2">>) \notin DOMAIN objects
    /\ asset_gets[<<"a", "b", "2">>] = <<"exception">>

\* C27: whenever check_installation is true, the loader profile, the base
\* version JSON and the client jar exist; and a run that takes the installed
\* path reads the asset index id from the version JSON, not the fallback.
C27_InstalledImpliesDescriptors ==
    /\ [](check_installation(jars) =>
             /\ version_json_path # NoFile
             /\ vanilla_version_json # NoFile
             /\ mc_jar \in jars)
    /\ [][ (setup_pc = "idle" /\ setup_pc' = "server_list") =>
             /\ asset_index_id' = version_data.assetIndex.id
             /\ asset_index_id' # MCVERSION
         ]_vars

\* C27's case: a run took the installed path of a directory that an earlier
\* run, started from a directory without loader, had installed
C27_Witness ==
    /\ setup_pc = "server_list" /\ op = "setup_start" /\ run_after_success
    /\ check_installation(jars)
    /\ version_json_path = File(loader_data)
    /\ vanilla_version_json = File(version_data)
    /\ asset_index_id = "5"

(***************************************************************************)
(* Claims about the launch sequence, checked under SpecLaunch.             *)
(***************************************************************************)

\* C11: the memory figure a launch computes for the game process is the base
\* figure of the preset it read plus 2 when the shader flag it read is set and
\* the preset's policy is OPTIONAL, and the base figure otherwise; a preset whose
\* policy is DISALLOWED gets its base figure whatever the flag.  The figure shown
\* next to the selection follows the same rule.
C11_RamAllocation ==
    /\ attempt # NoCall /\ attempt[1].settings # NoCall =>
          LET preset == mod_lists.tiers[attempt[1].settings[1]]
              flag == attempt[1].settings[2]
          IN  /\ flag /\ preset.shader_policy = "OPTIONAL" =>
                    attempt[1].ram = preset.ram + 2
              /\ ~flag => attempt[1].ram = preset.ram
              /\ preset.shader_policy = "DISALLOWED" => attempt[1].ram = preset.ram
    /\ LET shown == mod_lists.tiers[tier_var]
       IN  update_ram_display =
              shown.ram + (IF shaders_var /\ shown.shader_policy = "OPTIONAL" THEN 2 ELSE 0)

\* A game process was started with 18 for the preset of base figure 16.
C11_Witness ==
    /\ launch_pc = "monitor"
    /\ attempt[1].settings = <<"Ultra", TRUE>>
    /\ attempt[1].ram = 18

\* The worker read a DISALLOWED tier and then a set flag, and computed 6.
C11_DisallowedWithFlag ==
    /\ attempt # NoCall
    /\ attempt[1].settings = <<"Low", TRUE>>
    /\ attempt[1].ram = 6

\* The steps of one launch, in the order launch_sequence names them.
LaunchOrder == <<"setup_minecraft", "prepare_mods", "apply_settings", "classpath", "spawn">>

\* C12: within one launch the steps run strictly in sequence: the steps done
\* are always an initial part of setup, mod preparation, settings, classpath,
\* spawn; prepare_mods runs only after a setup_minecraft run that returned True,
\* apply_settings only after a prepare_mods that returned True, the classpath
\* only after the settings of this launch, a process is spawned only with a
\* built classpath; and once a step failed, no later step of that launch runs.
C12_StrictSequence ==
    /\ [](attempt # NoCall =>
            /\ Len(attempt[1].steps) <= Len(LaunchOrder)
            /\ attempt[1].steps = SubSeq(LaunchOrder, 1, Len(attempt[1].steps)))
    /\ [][ /\ op' = "prepare_mods" =>
                last_run # NoCall /\ last_run[1].result = "True"
           /\ op' = "apply_settings" =>
                /\ prepared # NoCall /\ prepared[1].ret = "True"
                /\ attempt[1].steps = <<"setup_minecraft", "prepare_mods">>
           /\ op' = "launch" =>
                /\ call # NoCall /\ call[1].tier = attempt[1].settings[1]
                /\ attempt[1].steps = <<"setup_minecraft", "prepare_mods", "apply_settings">>
                /\ launch'[1].spawned => launch'[1].built
           /\ ( /\ attempt # NoCall /\ attempt[1].failed # None
                /\ attempt'[1].number = attempt[1].number )
                => UNCHANGED <<attempt, last_run, prepared, call, launch, setup_pc>>
         ]_vars

\* A launch went through all five steps in order: the game process runs.
C12_Witness ==
    /\ attempt # NoCall
    /\ attempt[1].steps = LaunchOrder
    /\ attempt[1].failed = None
    /\ launch_pc = "monitor"

\* Each step can be the one that fails.
C12_FailedSteps ==
    attempt # NoCall /\ attempt[1].failed = "spawn" /\ prepared # NoCall

\* C13: every launch that disabled the launch button enables it again: in
\* the very step in which setup_minecraft or prepare_mods fails or an exception
\* reaches the handler of launch_sequence, and otherwise when the game process
\* exits, with code zero or not; a non-zero code is reported as a crash of the
\* game and not as a launch error.
C13_ButtonReenabled ==
    /\ (launch_btn = "disabled") ~> (launch_btn = "normal")
    /\ [][ /\ ( attempt # NoCall /\ attempt[1].failed = None
                /\ attempt'[1].failed # None ) => launch_btn' = "normal"
           /\ ( launch_pc = "monitor" /\ launch_pc' # "monitor" ) =>
                /\ launch_btn' = "normal"
                /\ attempt'[1].status \in {"Game closed normally", "Game crashed"}
           /\ ( launch_btn = "disabled" /\ launch_btn' = "normal" ) =>
                \/ attempt'[1].failed # None
                \/ launch_pc = "monitor"
         ]_vars

\* The game process of a launch exited with a non-zero code: the button is
\* enabled again and the status names a crash.
C13_Witness ==
    /\ attempt # NoCall
    /\ attempt[1].steps = LaunchOrder
    /\ attempt[1].status = "Game crashed"
    /\ launch_btn = "normal"

\* C15: a launch started on an installed runtime whose loader profile names
\* a main class and whose client jar exists, with the mod source folders in
\* place, gets to the spawn: setup_minecraft with its server-list step returns
\* True, prepare_mods returns True, the settings are applied, the classpath is
\* built and the start of the game process is attempted.
C15_LaunchReachesSpawn ==
    ( /\ launch_pc = "setup_minecraft" /\ setup_pc = "idle"
      /\ check_installation(jars)
      /\ version_json_path # NoFile
      /\ "mainClass" \in DOMAIN Content(version_json_path) )
    ~> ( \/ launch_pc = "monitor"
         \/ attempt # NoCall /\ attempt[1].failed = "spawn" )

C17_InstalledIffDescriptor ==
    op = "setup_start" =>
        /\ (setup_pc = "server_list") <=> (mc_jar \in jars /\ version_json_path # NoFile)
        /\ setup_pc = "server_list" => ~network_used

\* C17 as the code has it: the check reports installed exactly when the client
\* jar and the loader's jar (the copy download_fabric makes last) are both
\* present, whatever the state of the profile JSON, and then setup_minecraft
\* goes on to the server list without a request.
C17_InstalledIffBothJars ==
    /\ op = "setup_start" =>
          /\ (setup_pc = "server_list") <=> (mc_jar \in jars /\ fabric_jar \in jars)
          /\ setup_pc = "server_list" => ~network_used /\ requested = {}
    /\ (setup_pc = "server_list" /\ requested = {}) => ~network_used
    /\ (op = "server_list" /\ last_run[1].network_used) => requested # {}

\* The check has reported installed and no request was sent.
C17_Witness ==
    /\ op = "setup_start" /\ setup_pc = "server_list"
    /\ mc_jar \in jars /\ fabric_jar \in jars
    /\ ~network_used

FailedAttempts == {k \in DOMAIN retry.outcomes : retry.outcomes[k] # "ok"}

\* C21: download_with_retry terminates after at most `retries` requests.  No
\* request follows a successful one, whose response is what the call returns;
\* None is returned exactly when every one of the `retries` attempts failed;
\* the k-th failed attempt is followed by a wait of 2*k seconds unless it is
\* the last attempt, which is followed by none; and a call that has started
\* returns.
C21_BoundedRetry ==
    /\ [](Len(retry.outcomes) <= retry.retries)
    /\ [](\A k \in DOMAIN retry.outcomes :
             retry.outcomes[k] = "ok" => k = Len(retry.outcomes) /\ retry.pc = "returned")
    /\ [](retry.pc = "returned" =>
             IF retry.result = "response"
             THEN Len(retry.outcomes) > 0
                  /\ retry.outcomes[Len(retry.outcomes)] = "ok"
             ELSE /\ retry.result = None
                  /\ Len(retry.outcomes) = retry.retries
                  /\ Cardinality(FailedAttempts) = retry.retries)
    /\ [](\A k \in DOMAIN retry.waits : retry.waits[k] = 2 * k)
    /\ [](Len(retry.waits) =
             IF retry.pc = "request" THEN Cardinality(FailedAttempts)
             ELSE IF retry.pc = "sleep" THEN Cardinality(FailedAttempts)
             ELSE IF Cardinality(FailedAttempts) = retry.retries /\ retry.retries > 0
             THEN retry.retries - 1
             ELSE Cardinality(FailedAttempts))
    /\ (retry.pc = "request") ~> (retry.pc = "returned")

\* a call with the default count whose three attempts failed: None after
\* waits of 2 and 4 seconds
C21_Witness ==
    /\ retry.pc = "returned" /\ retry.retries = retries
    /\ retry.outcomes = <<"exception", "http error", "exception">>
    /\ retry.result = None
    /\ retry.waits = <<2, 4>>

(***************************************************************************)
(* Claims about two launchers on one directory, checked under              *)
(* SpecInstances.                                                          *)
(***************************************************************************)

\* what options.txt holds for the keys by which the tiers differ
OptionsAreOf(tier) ==
    /\ options # NoFile
    /\ LET read == ReadOptions(options)
       IN  /\ <<"renderDistance">> \in DOMAIN read
           /\ read[<<"renderDistance">>] =
                 <<ToString(tier_settings[tier].renderDistance)>>
           /\ read[<<"graphicsMode">>] = <<ToString(tier_settings[tier].graphicsMode)>>

====
